---- MODULE Spec2Model ----
(***************************************************************************)
(* Variation calculator: the pattern-extraction and grouping engine of     *)
(* client/src/lib/variationUtils.ts and its first-match variant.           *)
(*                                                                         *)
(* A JavaScript string is a sequence of one-character strings, so that     *)
(* trimming, joining and the column-letter codec are computed, not         *)
(* assumed.  A cell of the grid is a tagged value: a string, a number or   *)
(* undefined.                                                              *)
(***************************************************************************)
EXTENDS Integers, Sequences, FiniteSets, TLC

VARIABLES rawData, config, variationGroups, range, columnPatternMap,
          analysisResult, firstMatchResult,
          features, mappedFeatures,
          codecInput, codecOutput, codecBack,
          runs,
          permutedGroups, permutedPatternMap, permutedResult,
          namesPage, labelsPage, renameHistory,
          exportPage, configCall, configurePage

\* the results of the two extractFeatures implementations
featureVars == <<features, mappedFeatures>>

\* one call of a codec function, and the call of the other one on its result
codecVars == <<codecInput, codecOutput, codecBack>>

\* the local state of the interleaved runs of analyzeVariations
runVars == <<runs>>

\* a run of analyzeVariations on the same Selections listed in another order
orderVars == <<permutedGroups, permutedPatternMap, permutedResult>>

\* the pages that rename the groups of an analysis, and what they applied
renameVars == <<namesPage, labelsPage, renameHistory>>

\* the Export page, one call of the configuration functions, and the
\* Configure page
pageVars == <<exportPage, configCall, configurePage>>

vars == <<rawData, config, variationGroups, range, columnPatternMap,
          analysisResult, firstMatchResult, featureVars, codecVars, runVars,
          orderVars, renameVars, pageVars>>

(***************************************************************************)
(* JavaScript values                                                       *)
(***************************************************************************)
Undefined == [k |-> "undefined", s |-> <<>>, n |-> 0]

Str(s) == [k |-> "string", s |-> s, n |-> 0]

Num(n) == [k |-> "number", s |-> <<>>, n |-> n]

\* A value is falsy when it is undefined, the empty string or the number 0.
Truthy(v) ==
  \/ v.k = "string" /\ v.s # <<>>
  \/ v.k = "number" /\ v.n # 0

Digits == <<"0", "1", "2", "3", "4", "5", "6", "7", "8", "9">>

RECURSIVE NatToString(_)
NatToString(n) ==
  IF n < 10 THEN <<Digits[n + 1]>>
  ELSE NatToString(n \div 10) \o <<Digits[(n % 10) + 1]>>

\* String(v)
JsString(v) ==
  CASE v.k = "string" -> v.s
    [] v.k = "number" -> NatToString(v.n)
    [] OTHER -> <<"u", "n", "d", "e", "f", "i", "n", "e", "d">>

\* String(v || "")
StringOrEmpty(v) == IF Truthy(v) THEN JsString(v) ELSE <<>>

WhiteSpace == {" "}

RECURSIVE TrimStart(_)
TrimStart(s) ==
  IF s # <<>> /\ Head(s) \in WhiteSpace THEN TrimStart(Tail(s)) ELSE s

RECURSIVE TrimEnd(_)
TrimEnd(s) ==
  IF s # <<>> /\ s[Len(s)] \in WhiteSpace
  THEN TrimEnd(SubSeq(s, 1, Len(s) - 1))
  ELSE s

\* String.prototype.trim
Trim(s) == TrimEnd(TrimStart(s))

\* row[j] of a JavaScript array, j zero-based; outside the array: undefined
At(row, j) == IF j >= 0 /\ j < Len(row) THEN row[j + 1] ELSE Undefined

\* rawData[i] is a row (not undefined)
HasRow(data, i) == i >= 0 /\ i < Len(data)

\* rawData[i]?.[j]
CellAt(data, i, j) == IF HasRow(data, i) THEN At(data[i + 1], j) ELSE Undefined

\* String(rawData[i]?.[j] || "").trim()
CellText(data, i, j) == Trim(StringOrEmpty(CellAt(data, i, j)))

Max(a, b) == IF a >= b THEN a ELSE b

\* Array.prototype.includes on an array of strings
Includes(arr, x) == \E i \in 1..Len(arr) : arr[i] = x

\* Array.prototype.indexOf: zero-based, -1 when absent
IndexOf(arr, x) ==
  IF Includes(arr, x)
  THEN (CHOOSE i \in 1..Len(arr) :
          arr[i] = x /\ \A j \in 1..(i - 1) : arr[j] # x) - 1
  ELSE -1

(***************************************************************************)
(* Column codec                                                            *)
(***************************************************************************)
UpperLetters ==
  <<"A", "B", "C", "D", "E", "F", "G", "H", "I", "J", "K", "L", "M",
    "N", "O", "P", "Q", "R", "S", "T", "U", "V", "W", "X", "Y", "Z">>

LowerLetters ==
  <<"a", "b", "c", "d", "e", "f", "g", "h", "i", "j", "k", "l", "m",
    "n", "o", "p", "q", "r", "s", "t", "u", "v", "w", "x", "y", "z">>

\* String.prototype.charCodeAt for the characters the model uses
CharCode(c) ==
  CASE Includes(UpperLetters, c) -> 65 + IndexOf(UpperLetters, c)
    [] Includes(LowerLetters, c) -> 97 + IndexOf(LowerLetters, c)
    [] Includes(Digits, c) -> 48 + IndexOf(Digits, c)
    [] c = " " -> 32
    [] c = "-" -> 45
    [] c = "." -> 46
    [] c = "|" -> 124
    [] OTHER -> 63

\* String.fromCharCode for 65..90
FromCharCode(n) == UpperLetters[n - 64]

RECURSIVE LetterLoop(_, _, _)
LetterLoop(letter, i, index) ==
  IF i > Len(letter) THEN index
  ELSE LetterLoop(letter, i + 1, index * 26 + (CharCode(letter[i]) - 64))

columnLetterToIndex(letter) == LetterLoop(letter, 1, 0) - 1

RECURSIVE IndexLoop(_, _)
IndexLoop(index, letter) ==
  IF index > 0
  THEN IndexLoop((index - 1) \div 26,
                 <<FromCharCode(65 + ((index - 1) % 26))>> \o letter)
  ELSE letter

\* IndexLoop in plain base 26, where A is a zero digit (no index--)
RECURSIVE IndexLoopZeroDigit(_, _)
IndexLoopZeroDigit(index, letter) ==
  IF index > 0
  THEN IndexLoopZeroDigit(index \div 26,
                          <<FromCharCode(65 + (index % 26))>> \o letter)
  ELSE letter

\* indexToColumnLetter written with a zero digit: 0 = A, 25 = Z, 26 = BA
indexToColumnLetterZeroDigit(index) ==
  IF index = 0 THEN <<"A">> ELSE IndexLoopZeroDigit(index, <<>>)

indexToColumnLetter(index) == IndexLoop(index + 1, <<>>)

(***************************************************************************)
(* Configuration: { featureColumn, itemColumn, startRow, startDataColumn } *)
(* A selectedFeatures object is the sequence of its entries in key order:  *)
(* [name |-> feature name, items |-> array of item names].                 *)
(***************************************************************************)
HasKey(obj, name) == \E i \in 1..Len(obj) : obj[i].name = name

\* obj[name] for a key that is present
Get(obj, name) == obj[CHOOSE i \in 1..Len(obj) : obj[i].name = name].items

\* Set.prototype.add on a Set kept in insertion order
SetAdd(set, x) == IF Includes(set, x) THEN set ELSE Append(set, x)

RECURSIVE SetAddAll(_, _)
SetAddAll(set, xs) ==
  IF xs = <<>> THEN set ELSE SetAddAll(SetAdd(set, Head(xs)), Tail(xs))

(***************************************************************************)
(* findDataColumnRange                                                     *)
(***************************************************************************)
\* row[j] && String(row[j]).trim()
Populated(row, j) == Truthy(At(row, j)) /\ Trim(JsString(At(row, j))) # <<>>

\* the inner loop, j down to startIndex: endIndex = Math.max(endIndex, j) at
\* every populated j leaves the largest of endIndex and the populated j
RangeColumnLoop(row, j, startIndex, endIndex) ==
  LET populated == { k \in startIndex..j : Populated(row, k) }
  IN  IF populated = {} THEN endIndex
      ELSE Max(endIndex, CHOOSE m \in populated : \A k \in populated : k <= m)

RECURSIVE RangeRowLoop(_, _, _, _)
RangeRowLoop(data, i, startIndex, endIndex) ==
  IF i >= Len(data) THEN endIndex
  ELSE RangeRowLoop(data, i + 1, startIndex,
                    RangeColumnLoop(data[i + 1], Len(data[i + 1]) - 1,
                                    startIndex, endIndex))

findDataColumnRange(data, startDataColumn) ==
  LET startIndex == columnLetterToIndex(startDataColumn)
  IN  [start |-> startIndex,
       end |-> RangeRowLoop(data, 0, startIndex, startIndex)]

(***************************************************************************)
(* extractColumnPattern                                                    *)
(***************************************************************************)
\* currentFeature = null
NoFeature == <<>>

\* cellValue === "O" ? "O" : "-"
Mark(cellValue) == IF cellValue = <<"O">> THEN "O" ELSE "-"

\* the row scan stops: the row is absent or too short, or both names are blank
ScanStops(data, i, featureColIndex, itemColIndex) ==
  \/ ~HasRow(data, i)
  \/ Len(data[i + 1]) <= Max(featureColIndex, itemColIndex)
  \/ /\ CellText(data, i, featureColIndex) = <<>>
     /\ CellText(data, i, itemColIndex) = <<>>

RECURSIVE PatternLoop(_, _, _, _, _, _, _, _)
PatternLoop(data, i, columnIndex, featureColIndex, itemColIndex, selectedFeatures, currentFeature, pattern) ==
  IF ScanStops(data, i, featureColIndex, itemColIndex) THEN pattern
  ELSE
    LET featureName == CellText(data, i, featureColIndex)
        itemName == CellText(data, i, itemColIndex)
        current == IF featureName # <<>> THEN featureName ELSE currentFeature
        selected ==
          /\ current # NoFeature
          /\ HasKey(selectedFeatures, current)
          /\ Includes(Get(selectedFeatures, current), itemName)
    IN  PatternLoop(data, i + 1, columnIndex, featureColIndex, itemColIndex,
                    selectedFeatures, current,
                    IF selected
                    THEN Append(pattern, Mark(CellText(data, i, columnIndex)))
                    ELSE pattern)

\* the Selection cut into Selections of one (feature, item) pair each, in the
\* order the Selection lists them
RECURSIVE PairSelections(_)
PairSelections(selectedFeatures) ==
  IF selectedFeatures = <<>> THEN <<>>
  ELSE [p \in 1..Len(Head(selectedFeatures).items) |->
          << [name |-> Head(selectedFeatures).name,
              items |-> <<Head(selectedFeatures).items[p]>>] >>]
         \o PairSelections(Tail(selectedFeatures))

RECURSIVE PairsPatternLoop(_, _, _, _)
PairsPatternLoop(data, columnIndex, cfg, pairs) ==
  IF pairs = <<>> THEN <<>>
  ELSE PatternLoop(data, cfg.startRow - 1, columnIndex,
                   columnLetterToIndex(cfg.featureColumn),
                   columnLetterToIndex(cfg.itemColumn),
                   Head(pairs), NoFeature, <<>>)
         \o PairsPatternLoop(data, columnIndex, cfg, Tail(pairs))

\* extractColumnPattern with the marks in the order of the Selection, pair by
\* pair, instead of the order of the rows
extractColumnPatternBySelection(data, columnIndex, cfg, selectedFeatures) ==
  PairsPatternLoop(data, columnIndex, cfg, PairSelections(selectedFeatures))

\* pattern.join(""): the marks are single characters
extractColumnPattern(data, columnIndex, cfg, selectedFeatures) ==
  PatternLoop(data, cfg.startRow - 1, columnIndex,
              columnLetterToIndex(cfg.featureColumn),
              columnLetterToIndex(cfg.itemColumn),
              selectedFeatures, NoFeature, <<>>)

(***************************************************************************)
(* analyzeVariations (pattern-grouping engine)                             *)
(***************************************************************************)
\* Array.prototype.slice(from, to) for 0 <= from
Slice(row, from, to) ==
  LET last == IF to < Len(row) THEN to ELSE Len(row)
  IN  IF from >= last THEN <<>> ELSE SubSeq(row, from + 1, last)

RECURSIVE HeaderLoop(_, _, _, _, _)
HeaderLoop(data, i, startRowIndex, rng, headerRows) ==
  IF i >= startRowIndex THEN headerRows
  ELSE HeaderLoop(data, i + 1, startRowIndex, rng,
                  IF HasRow(data, i)
                  THEN Append(headerRows,
                              Slice(data[i + 1], rng.start, rng.end + 1))
                  ELSE headerRows)

\* selectedItemsMap[fname] gets every item of one selectedFeatures entry
MergeEntry(map, entry) ==
  IF HasKey(map, entry.name)
  THEN [i \in 1..Len(map) |->
          IF map[i].name = entry.name
          THEN [name |-> entry.name,
                items |-> SetAddAll(map[i].items, entry.items)]
          ELSE map[i]]
  ELSE Append(map, [name |-> entry.name,
                    items |-> SetAddAll(<<>>, entry.items)])

RECURSIVE MergeEntries(_, _)
MergeEntries(map, entries) ==
  IF entries = <<>> THEN map
  ELSE MergeEntries(MergeEntry(map, Head(entries)), Tail(entries))

RECURSIVE MergeGroups(_, _)
MergeGroups(map, groups) ==
  IF groups = <<>> THEN map
  ELSE MergeGroups(MergeEntries(map, Head(groups).selectedFeatures),
                   Tail(groups))

\* selectedItemsMap, and selectedItemsMapForPattern built from it
selectedItemsMap(groups) == MergeGroups(<<>>, groups)

RowValues(data, i, rng) ==
  [c \in 1..(rng.end - rng.start + 1) |-> CellText(data, i, rng.start + c - 1)]

RECURSIVE FeatureRowsLoopAnyItem(_, _, _, _, _, _, _, _)
\* the featureRows scan without the test that the item is selected
FeatureRowsLoopAnyItem(data, i, featureColIndex, itemColIndex, rng, itemsMap, currentFeature, featureRows) ==
  IF ScanStops(data, i, featureColIndex, itemColIndex) THEN featureRows
  ELSE
    LET featureName == CellText(data, i, featureColIndex)
        itemName == CellText(data, i, itemColIndex)
        current == IF featureName # <<>> THEN featureName ELSE currentFeature
        keep ==
          /\ current # NoFeature
          /\ HasKey(itemsMap, current)
          /\ itemName # <<>>
    IN  FeatureRowsLoopAnyItem(data, i + 1, featureColIndex, itemColIndex,
                               rng, itemsMap, current,
                               IF keep
                               THEN Append(featureRows,
                                           [feature |-> current,
                                            item |-> itemName,
                                            values |-> RowValues(data, i, rng)])
                               ELSE featureRows)

RECURSIVE FeatureRowsLoop(_, _, _, _, _, _, _, _)
FeatureRowsLoop(data, i, featureColIndex, itemColIndex, rng, itemsMap, currentFeature, featureRows) ==
  IF ScanStops(data, i, featureColIndex, itemColIndex) THEN featureRows
  ELSE
    LET featureName == CellText(data, i, featureColIndex)
        itemName == CellText(data, i, itemColIndex)
        current == IF featureName # <<>> THEN featureName ELSE currentFeature
        keep ==
          /\ current # NoFeature
          /\ HasKey(itemsMap, current)
          /\ itemName # <<>>
          /\ Includes(Get(itemsMap, current), itemName)
    IN  FeatureRowsLoop(data, i + 1, featureColIndex, itemColIndex, rng,
                        itemsMap, current,
                        IF keep
                        THEN Append(featureRows,
                                    [feature |-> current, item |-> itemName,
                                     values |-> RowValues(data, i, rng)])
                        ELSE featureRows)

colors ==
  <<"#FFE5E5", "#E5F3FF", "#E5FFE5", "#FFF9E5",
    "#F0E5FF", "#FFE5F5", "#E5FFFF", "#FFE5CC">>

\* "ABCDEFGHIJKLMNOPQRSTUVWXYZ".split("")
groupLetters == [i \in 1..Len(UpperLetters) |-> <<UpperLetters[i]>>]

\* DataColumns with the loop ending one column early (< for <=)
DataColumnsShort(rng) == [c \in 1..(rng.end - rng.start) |-> rng.start + c - 1]

\* the columns the engine visits, left to right
DataColumns(rng) == [c \in 1..(rng.end - rng.start + 1) |-> rng.start + c - 1]

\* columnPatternMap: one pattern per data column, in insertion order
BuildColumnPatternMap(data, cfg, rng, groups) ==
  LET cols == DataColumns(rng)
      sel == selectedItemsMap(groups)
  IN  [c \in 1..Len(cols) |->
         [col |-> cols[c],
          pattern |-> extractColumnPattern(data, cols[c], cfg, sel)]]

MapHas(map, key) == \E i \in 1..Len(map) : map[i].key = key

MapGet(map, key) == map[CHOOSE i \in 1..Len(map) : map[i].key = key].value

\* one step of columnPatternMap.forEach: a new pattern takes the next letter
GroupStep(acc, pattern) ==
  IF MapHas(acc.map, pattern) THEN acc
  ELSE [map |-> Append(acc.map,
                       [key |-> pattern,
                        value |-> groupLetters[(acc.groupCounter
                                                % Len(groupLetters)) + 1]]),
        groupCounter |-> acc.groupCounter + 1]

\* the columns whose pattern is not yet in patternToGroupMap when forEach
\* visits them: the ones that take a letter
NewPatternColumns(patternMap) ==
  { c \in 1..Len(patternMap) :
      \A d \in 1..(c - 1) : patternMap[d].pattern # patternMap[c].pattern }

\* columnPatternMap.forEach run to its end: the k-th new pattern is inserted
\* k-th, when groupCounter is k - 1
patternToGroupMap(patternMap) ==
  LET new == NewPatternColumns(patternMap)
      Place(c) == Cardinality({ d \in new : d <= c })
  IN  [k \in 1..Cardinality(new) |->
         [key |-> patternMap[CHOOSE c \in new : Place(c) = k].pattern,
          value |-> groupLetters[((k - 1) % Len(groupLetters)) + 1]]]

\* ColumnEntry that takes the group letter by the column's place instead of
\* looking the column's pattern up in patternToGroupMap
ColumnEntryByPlace(data, startRowIndex, entry, groupMap) ==
  LET variationGroup == groupLetters[(entry.col % Len(groupLetters)) + 1]
      colorIndex == IndexOf(groupLetters, variationGroup)
  IN  [columnLetter |-> indexToColumnLetter(entry.col),
       gradeName |-> CellText(data, startRowIndex - 2, entry.col),
       variationGroup |-> variationGroup,
       backgroundColor |-> colors[(Max(0, colorIndex) % Len(colors)) + 1]]

ColumnEntry(data, startRowIndex, entry, groupMap) ==
  LET variationGroup ==
        IF MapHas(groupMap, entry.pattern)
        THEN MapGet(groupMap, entry.pattern) ELSE <<"?">>
      colorIndex == IndexOf(groupLetters, variationGroup)
  IN  [columnLetter |-> indexToColumnLetter(entry.col),
       gradeName |-> CellText(data, startRowIndex - 2, entry.col),
       variationGroup |-> variationGroup,
       backgroundColor |-> colors[(Max(0, colorIndex) % Len(colors)) + 1]]

variationGroupsWithColor(groups) ==
  [g \in 1..Len(groups) |->
     [id |-> groups[g].id, name |-> groups[g].name,
      color |-> colors[((g - 1) % Len(colors)) + 1]]]

analyzeVariations(data, cfg, groups) ==
  LET featureColIndex == columnLetterToIndex(cfg.featureColumn)
      itemColIndex == columnLetterToIndex(cfg.itemColumn)
      startRowIndex == cfg.startRow - 1
      rng == findDataColumnRange(data, cfg.startDataColumn)
      patternMap == BuildColumnPatternMap(data, cfg, rng, groups)
      groupMap == patternToGroupMap(patternMap)
  IN  [headerRows |-> HeaderLoop(data, 0, startRowIndex, rng, <<>>),
       featureRows |->
         FeatureRowsLoop(data, startRowIndex, featureColIndex, itemColIndex,
                         rng, selectedItemsMap(groups), NoFeature, <<>>),
       columnPatterns |->
         [c \in 1..Len(patternMap) |->
            ColumnEntry(data, startRowIndex, patternMap[c], groupMap)],
       variationGroups |-> variationGroupsWithColor(groups)]

(***************************************************************************)
(* First-match variant: generatePattern and its analyzeVariations          *)
(***************************************************************************)
\* Array.prototype.join
RECURSIVE Join(_, _)
Join(parts, sep) ==
  IF parts = <<>> THEN <<>>
  ELSE IF Len(parts) = 1 THEN Head(parts)
  ELSE Head(parts) \o sep \o Join(Tail(parts), sep)

\* the inner row loop of generatePattern: hasMatch for one feature
RECURSIVE HasMatchLoop(_, _, _, _, _, _, _)
HasMatchLoop(data, i, columnIndex, featureColIndex, itemColIndex, featureName, selectedItems) ==
  IF i >= Len(data) THEN FALSE
  ELSE
    LET currentFeature == CellText(data, i, featureColIndex)
        cellValue == CellText(data, i, columnIndex)
    IN  IF currentFeature = <<>> THEN FALSE
        ELSE IF /\ currentFeature = featureName
                /\ Includes(selectedItems, CellText(data, i, itemColIndex))
                /\ (cellValue = <<"O">> \/ cellValue = <<"o">>)
        THEN TRUE
        ELSE HasMatchLoop(data, i + 1, columnIndex, featureColIndex,
                          itemColIndex, featureName, selectedItems)

generatePattern(data, columnIndex, cfg, selectedFeatures) ==
  LET startRowIndex == cfg.startRow - 1
      patternParts ==
        [f \in 1..Len(selectedFeatures) |->
           IF HasMatchLoop(data, startRowIndex, columnIndex,
                           columnLetterToIndex(cfg.featureColumn),
                           columnLetterToIndex(cfg.itemColumn),
                           selectedFeatures[f].name, selectedFeatures[f].items)
           THEN <<"O">> ELSE <<"-">>]
  IN  Join(patternParts, <<"|">>)

RECURSIVE FirstMatchRowsLoop(_, _, _, _, _, _)
FirstMatchRowsLoop(data, i, featureColIndex, itemColIndex, rng, featureRows) ==
  IF ~HasRow(data, i) \/ CellText(data, i, featureColIndex) = <<>>
  THEN featureRows
  ELSE FirstMatchRowsLoop(data, i + 1, featureColIndex, itemColIndex, rng,
         IF CellText(data, i, itemColIndex) = <<>> THEN featureRows
         ELSE Append(featureRows,
                     [feature |-> CellText(data, i, featureColIndex),
                      item |-> CellText(data, i, itemColIndex),
                      values |-> RowValues(data, i, rng)]))

\* matchedGroupId = null
NullId == <<>>

RECURSIVE MatchLoopKeepMatching(_, _, _, _, _, _)
\* the loop over the groups with a later group of the same pattern taking
\* the column
MatchLoopKeepMatching(data, colIndex, cfg, groups, g, matched) ==
  IF g > Len(groups) THEN matched
  ELSE
    LET pattern == generatePattern(data, colIndex, cfg,
                                   groups[g].selectedFeatures)
    IN  IF matched.isNull
        THEN MatchLoopKeepMatching(data, colIndex, cfg, groups, g + 1,
                                   [isNull |-> FALSE, id |-> groups[g].id,
                                    pattern |-> pattern])
        ELSE IF pattern = matched.pattern
        THEN [isNull |-> FALSE, id |-> groups[g].id, pattern |-> pattern]
        ELSE MatchLoopKeepMatching(data, colIndex, cfg, groups, g + 1,
                                   matched)

\* the loop over the groups: the first group sets matchedGroupId; a later
\* group whose pattern equals matchedPattern ends the loop
RECURSIVE MatchLoop(_, _, _, _, _, _)
MatchLoop(data, colIndex, cfg, groups, g, matched) ==
  IF g > Len(groups) THEN matched
  ELSE
    LET pattern == generatePattern(data, colIndex, cfg,
                                   groups[g].selectedFeatures)
    IN  IF matched.isNull
        THEN MatchLoop(data, colIndex, cfg, groups, g + 1,
                       [isNull |-> FALSE, id |-> groups[g].id,
                        pattern |-> pattern])
        ELSE IF pattern = matched.pattern THEN matched
        ELSE MatchLoop(data, colIndex, cfg, groups, g + 1, matched)

MatchGroup(data, colIndex, cfg, groups) ==
  LET m == MatchLoop(data, colIndex, cfg, groups, 1,
                     [isNull |-> TRUE, id |-> NullId, pattern |-> <<>>])
  IN  [id |-> IF m.isNull THEN NullId ELSE m.id, pattern |-> m.pattern]

analyzeVariationsFirstMatch(data, cfg, groups) ==
  LET featureColIndex == columnLetterToIndex(cfg.featureColumn)
      itemColIndex == columnLetterToIndex(cfg.itemColumn)
      startRowIndex == cfg.startRow - 1
      rng == findDataColumnRange(data, cfg.startDataColumn)
      cols == DataColumns(rng)
  IN  [headerRows |-> HeaderLoop(data, 0, startRowIndex, rng, <<>>),
       featureRows |->
         FirstMatchRowsLoop(data, startRowIndex, featureColIndex,
                            itemColIndex, rng, <<>>),
       columnPatterns |->
         [c \in 1..Len(cols) |->
            LET m == MatchGroup(data, cols[c], cfg, groups)
            IN  [columnLetter |-> indexToColumnLetter(cols[c]),
                 gradeName |-> CellText(data, startRowIndex - 1, cols[c]),
                 pattern |-> m.pattern,
                 variationGroupId |-> m.id]],
       variationGroups |-> variationGroupsWithColor(groups)]

(***************************************************************************)
(* extractFeatures                                                         *)
(***************************************************************************)
\* featureList.push(currentFeature) for a row that names a feature
PushFeature(featureList, featureName) ==
  IF featureName # <<>>
  THEN Append(featureList,
              [name |-> featureName, items |-> <<>>, isSelected |-> FALSE])
  ELSE featureList

\* currentFeature.items.push: currentFeature is the feature pushed last, and
\* is null as long as none was pushed
PushItem(featureList, itemName) ==
  IF itemName # <<>> /\ featureList # <<>>
  THEN [featureList EXCEPT
          ![Len(featureList)].items =
             Append(@, [name |-> itemName, isSelected |-> TRUE])]
  ELSE featureList

RECURSIVE ExtractLoop(_, _, _, _, _)
ExtractLoop(data, i, featureColIndex, itemColIndex, featureList) ==
  IF ScanStops(data, i, featureColIndex, itemColIndex) THEN featureList
  ELSE ExtractLoop(data, i + 1, featureColIndex, itemColIndex,
                   PushItem(PushFeature(featureList,
                                        CellText(data, i, featureColIndex)),
                            CellText(data, i, itemColIndex)))

extractFeatures(data, cfg) ==
  ExtractLoop(data, cfg.startRow - 1, columnLetterToIndex(cfg.featureColumn),
              columnLetterToIndex(cfg.itemColumn), <<>>)

(***************************************************************************)
(* extractFeatures of the label-based variant: a map from feature name to  *)
(* the Set of its items, the item column being the one after the feature   *)
(* column                                                                  *)
(***************************************************************************)
\* featureMap[featureName] = new Set() when absent, then .add(itemName)
MapAddItem(featureMap, featureName, itemName) ==
  LET map == IF HasKey(featureMap, featureName) THEN featureMap
             ELSE Append(featureMap, [name |-> featureName, items |-> <<>>])
  IN  IF itemName = <<>> THEN map
      ELSE [k \in 1..Len(map) |->
              IF map[k].name = featureName
              THEN [name |-> featureName, items |-> SetAdd(map[k].items, itemName)]
              ELSE map[k]]

RECURSIVE MappedLoop(_, _, _, _, _)
MappedLoop(data, i, featureColIndex, itemColIndex, featureMap) ==
  IF \/ ~HasRow(data, i)
     \/ ~Truthy(CellAt(data, i, featureColIndex))
     \/ Trim(JsString(CellAt(data, i, featureColIndex))) = <<>>
  THEN featureMap
  ELSE MappedLoop(data, i + 1, featureColIndex, itemColIndex,
                  MapAddItem(featureMap,
                             Trim(JsString(CellAt(data, i, featureColIndex))),
                             CellText(data, i, itemColIndex)))

extractFeaturesMapped(data, cfg) ==
  LET featureColIndex == columnLetterToIndex(cfg.featureColumn)
      featureMap == MappedLoop(data, cfg.startRow - 1, featureColIndex,
                               featureColIndex + 1, <<>>)
  IN  [f \in 1..Len(featureMap) |->
         [name |-> featureMap[f].name,
          items |-> [k \in 1..Len(featureMap[f].items) |->
                       [name |-> featureMap[f].items[k], isSelected |-> FALSE]],
          isSelected |-> FALSE]]

(***************************************************************************)
(* Inputs: grids as the sheet reader delivers them (rectangular rows of    *)
(* strings and numbers), configurations and variation groups               *)
(***************************************************************************)
MaxDataCols == 2

T == <<"T">>
U == <<"U">>
V == <<"V">>
X == <<"X">>
Y == <<"Y">>
Blank == <<>>

\* feature and item cells of the rows, top to bottom
Layouts ==
  { << <<T, X>> >>,
    << <<T, X>>, <<Blank, Y>> >>,
    << <<T, X>>, <<U, X>> >>,
    << <<T, X>>, <<T, X>> >>,
    << <<<<" ", "T">>, X>>, <<Blank, <<" ">>>>, <<U, Y>> >>,
    << <<T, X>>, <<Blank, Y>>, <<U, X>> >> }

\* the spellings of a data cell; grids of one row range over all of them
DataCells ==
  { Str(<<"O">>), Str(<<"o">>), Str(<<" ", "O", " ">>), Str(<<"-">>),
    Str(<<".">>), Str(<<>>), Num(0), Num(1) }

CellsFor(layout) ==
  IF Len(layout) = 1 THEN DataCells ELSE {Str(<<"O">>), Str(<<"-">>)}

\* cols[c][r] is the cell of data column c in row r
MakeGrid(layout, cols) ==
  [r \in 1..Len(layout) |->
     <<Str(layout[r][1]), Str(layout[r][2])>>
       \o [c \in 1..Len(cols) |-> cols[c][r]]]

GridsOf(layout) ==
  UNION { { MakeGrid(layout, cols) :
              cols \in [1..n -> [1..Len(layout) -> CellsFor(layout)]] } :
          n \in 0..MaxDataCols }

\* bit b (0 = lowest) of k
Bit(k, b) == (k \div (2 ^ b)) % 2

WideLayout ==
  << <<T, X>>, <<Blank, Y>>, <<U, X>>, <<Blank, Y>>, <<V, X>> >>

\* n data columns: column c spells c - 1 in binary, O for 1 and - for 0,
\* top row lowest; one more distinct column than there are group letters,
\* after which the columns repeat
WideGrid(n) ==
  MakeGrid(WideLayout,
           [c \in 1..n |->
              [r \in 1..Len(WideLayout) |->
                 IF Bit((c - 1) % (Len(UpperLetters) + 1), r - 1) = 1
                 THEN Str(<<"O">>)
                 ELSE Str(<<"-">>)]])

Configs ==
  { [featureColumn |-> <<"A">>, itemColumn |-> <<"B">>,
     startRow |-> r, startDataColumn |-> d] :
      r \in {1, 2}, d \in {<<"C">>, <<"D">>} }

BaseConfig ==
  [featureColumn |-> <<"A">>, itemColumn |-> <<"B">>,
   startRow |-> 1, startDataColumn |-> <<"C">>]

Group(id, name, selectedFeatures) ==
  [id |-> id, name |-> name, selectedFeatures |-> selectedFeatures]

\* ids as the Configure page makes them: group-<timestamp>
G1 == <<"g", "r", "o", "u", "p", "-", "1">>

G2 == <<"g", "r", "o", "u", "p", "-", "2">>

GroupSets ==
  { <<>>,
    << Group(G1, <<"V", "1">>, << [name |-> T, items |-> <<X, Y>>] >>) >>,
    << Group(G1, <<"V", "1">>, << [name |-> T, items |-> <<X>>] >>),
       Group(G2, <<"V", "2">>, << [name |-> U, items |-> <<X, Y>>] >>) >>,
    << Group(G1, <<"V", "1">>, << [name |-> U, items |-> <<X>>],
                                  [name |-> T, items |-> <<Y, X>>] >>) >> }

WideGroupSet ==
  << Group(G1, <<"V", "1">>, << [name |-> T, items |-> <<X, Y>>],
                                [name |-> U, items |-> <<X, Y>>],
                                [name |-> V, items |-> <<X>>] >>) >>

Inputs ==
  { [rawData |-> g, config |-> c, variationGroups |-> s] :
      g \in UNION { GridsOf(l) : l \in Layouts }, c \in Configs,
      s \in GroupSets }
  \cup
  { [rawData |-> WideGrid(n), config |-> BaseConfig,
     variationGroups |-> WideGroupSet] :
      n \in {Len(groupLetters) + 1, Len(groupLetters) + 2} }

(***************************************************************************)
(* State machine                                                           *)
(***************************************************************************)
Null == [k |-> "null"]

\* a call that has returned the value v
Returned(v) == [k |-> "returned", v |-> v]

\* the parts of the state a specification does not use stay null
NoFeatureRun == features = Null /\ mappedFeatures = Null

NoCodecRun == codecInput = Null /\ codecOutput = Null /\ codecBack = Null

NoRuns == runs = Null

NoPermutedRun ==
  permutedGroups = Null /\ permutedPatternMap = Null /\ permutedResult = Null

NoRename == namesPage = Null /\ labelsPage = Null /\ renameHistory = Null

NoPages == exportPage = Null /\ configCall = Null /\ configurePage = Null

NoEngineRun ==
  /\ range = Null
  /\ columnPatternMap = Null
  /\ analysisResult = Null
  /\ firstMatchResult = Null

Init ==
  /\ \E in \in Inputs :
       /\ rawData = in.rawData
       /\ config = in.config
       /\ variationGroups = in.variationGroups
  /\ range = Null
  /\ columnPatternMap = Null
  /\ analysisResult = Null
  /\ firstMatchResult = Null
  /\ NoFeatureRun /\ NoCodecRun /\ NoRuns /\ NoPermutedRun
  /\ NoRename /\ NoPages

\* handleAnalyze: one run of analyzeVariations; range and columnPatternMap
\* keep the run's data column range and its per-column patterns
Analyze ==
  /\ analysisResult = Null
  /\ range' = findDataColumnRange(rawData, config.startDataColumn)
  /\ columnPatternMap' =
       BuildColumnPatternMap(rawData, config, range', variationGroups)
  /\ analysisResult' = analyzeVariations(rawData, config, variationGroups)
  /\ UNCHANGED <<rawData, config, variationGroups, firstMatchResult>>
  /\ UNCHANGED <<featureVars, codecVars, runVars, orderVars>>
  /\ UNCHANGED <<renameVars, pageVars>>

\* one run of the first-match analyzeVariations
AnalyzeFirstMatch ==
  /\ firstMatchResult = Null
  /\ firstMatchResult' =
       analyzeVariationsFirstMatch(rawData, config, variationGroups)
  /\ UNCHANGED <<rawData, config, variationGroups, range, columnPatternMap,
                 analysisResult>>
  /\ UNCHANGED <<featureVars, codecVars, runVars, orderVars>>
  /\ UNCHANGED <<renameVars, pageVars>>

Next == Analyze \/ AnalyzeFirstMatch

Spec == Init /\ [][Next]_vars

(***************************************************************************)
(* Feature extraction: the Configure page extracts the features of the     *)
(* imported grid                                                           *)
(***************************************************************************)
MaxRows == 3

FeatureCells == { Str(T), Str(<<" ", "T", " ">>), Str(U), Str(Blank) }

ItemCells == { Str(X), Str(<<" ", "Y">>), Str(Blank), Num(0) }

\* sheets of two columns and 1..MaxRows rows, and sheets of one column
FeatureGrids ==
  UNION { [1..n -> { <<f, it>> : f \in FeatureCells, it \in ItemCells }] :
          n \in 1..MaxRows }
  \cup { << <<Str(T)>> >>, << <<Str(T)>>, <<Str(U)>> >> }

InitFeatures ==
  /\ rawData \in FeatureGrids
  /\ config \in { c \in Configs : c.startDataColumn = <<"C">> }
  /\ variationGroups = <<>>
  /\ NoEngineRun /\ NoFeatureRun /\ NoCodecRun /\ NoRuns /\ NoPermutedRun
  /\ NoRename /\ NoPages

ExtractFeatures ==
  /\ features = Null
  /\ features' = Returned(extractFeatures(rawData, config))
  /\ UNCHANGED <<rawData, config, variationGroups, range, columnPatternMap,
                 analysisResult, firstMatchResult, mappedFeatures>>
  /\ UNCHANGED <<codecVars, runVars, orderVars>>
  /\ UNCHANGED <<renameVars, pageVars>>

ExtractFeaturesMapped ==
  /\ mappedFeatures = Null
  /\ mappedFeatures' = Returned(extractFeaturesMapped(rawData, config))
  /\ UNCHANGED <<rawData, config, variationGroups, range, columnPatternMap,
                 analysisResult, firstMatchResult, features>>
  /\ UNCHANGED <<codecVars, runVars, orderVars>>
  /\ UNCHANGED <<renameVars, pageVars>>

NextFeatures == ExtractFeatures \/ ExtractFeaturesMapped

SpecFeatures == InitFeatures /\ [][NextFeatures]_vars

(***************************************************************************)
(* Column codec: one call of columnLetterToIndex or indexToColumnLetter,   *)
(* and the other function called on what it returned                       *)
(***************************************************************************)
MaxIndex == 730

MaxLetters == 3

\* the characters of a typed column setting
LetterChars == {"A", "B", "Z", "a", "z", "1", " ", "-"}

LetterInputs == UNION { [1..n -> LetterChars] : n \in 0..MaxLetters }

IndexInputs == (0 - 3)..MaxIndex

InitCodec ==
  /\ codecInput \in { [k |-> "letter", s |-> s] : s \in LetterInputs }
                      \cup { [k |-> "index", n |-> n] : n \in IndexInputs }
  /\ codecOutput = Null
  /\ codecBack = Null
  /\ rawData = <<>>
  /\ config = BaseConfig
  /\ variationGroups = <<>>
  /\ NoEngineRun /\ NoFeatureRun /\ NoRuns /\ NoPermutedRun
  /\ NoRename /\ NoPages

LetterToIndex ==
  /\ codecInput.k = "letter"
  /\ codecOutput = Null
  /\ codecOutput' = Returned(columnLetterToIndex(codecInput.s))
  /\ UNCHANGED <<rawData, config, variationGroups, range, columnPatternMap,
                 analysisResult, firstMatchResult, codecInput, codecBack>>
  /\ UNCHANGED <<featureVars, runVars, orderVars>>
  /\ UNCHANGED <<renameVars, pageVars>>

IndexToLetter ==
  /\ codecInput.k = "index"
  /\ codecOutput = Null
  /\ codecOutput' = Returned(indexToColumnLetter(codecInput.n))
  /\ UNCHANGED <<rawData, config, variationGroups, range, columnPatternMap,
                 analysisResult, firstMatchResult, codecInput, codecBack>>
  /\ UNCHANGED <<featureVars, runVars, orderVars>>
  /\ UNCHANGED <<renameVars, pageVars>>

\* columnLetterToIndex(indexToColumnLetter(i))
IndexOfLetter ==
  /\ codecInput.k = "index"
  /\ codecOutput # Null
  /\ codecBack = Null
  /\ codecBack' = Returned(columnLetterToIndex(codecOutput.v))
  /\ UNCHANGED <<rawData, config, variationGroups, range, columnPatternMap,
                 analysisResult, firstMatchResult, codecInput, codecOutput>>
  /\ UNCHANGED <<featureVars, runVars, orderVars>>
  /\ UNCHANGED <<renameVars, pageVars>>

\* indexToColumnLetter(columnLetterToIndex(s))
LetterOfIndex ==
  /\ codecInput.k = "letter"
  /\ codecOutput # Null
  /\ codecBack = Null
  /\ codecBack' = Returned(indexToColumnLetter(codecOutput.v))
  /\ UNCHANGED <<rawData, config, variationGroups, range, columnPatternMap,
                 analysisResult, firstMatchResult, codecInput, codecOutput>>
  /\ UNCHANGED <<featureVars, runVars, orderVars>>
  /\ UNCHANGED <<renameVars, pageVars>>

NextCodec == LetterToIndex \/ IndexToLetter \/ IndexOfLetter \/ LetterOfIndex

SpecCodec == InitCodec /\ [][NextCodec]_vars

(***************************************************************************)
(* Runs of analyzeVariations on the same arguments, taken step by step:    *)
(* every variable of the function is local to the call                     *)
(***************************************************************************)
NumRuns == 2

MaxRunCols == 4

Runs == 1..NumRuns

\* grids of two data columns under the layouts of several rows, and grids
\* of 1..MaxRunCols pairwise different columns
RunGrids ==
  UNION { { MakeGrid(l, cols) :
              cols \in [1..2 -> [1..Len(l) -> {Str(<<"O">>), Str(<<"-">>)}]] } :
          l \in { l \in Layouts : Len(l) = 2 } }
  \cup { WideGrid(n) : n \in 1..MaxRunCols }

RunInputs ==
  { [rawData |-> g, config |-> BaseConfig, variationGroups |-> s] :
      g \in RunGrids, s \in (GroupSets \ {<<>>}) \cup {WideGroupSet} }

\* the locals of a call that has not started
RunLocals ==
  [pc |-> "start", range |-> [start |-> 0, end |-> 0], headerRows |-> <<>>,
   featureRows |-> <<>>, selectedItemsMap |-> <<>>, columnPatternMap |-> <<>>,
   colIndex |-> 0, each |-> 1,
   patternToGroupMap |-> <<>>, groupCounter |-> 0, result |-> Null]

InitRuns ==
  /\ \E in \in RunInputs :
       /\ rawData = in.rawData
       /\ config = in.config
       /\ variationGroups = in.variationGroups
  /\ runs = [r \in Runs |-> RunLocals]
  /\ NoEngineRun /\ NoFeatureRun /\ NoCodecRun /\ NoPermutedRun
  /\ NoRename /\ NoPages

\* groupCounter as run r reads it, were it one variable shared by the runs
GroupCounterShared(rs, r) ==
  CHOOSE n \in {rs[q].groupCounter : q \in DOMAIN rs} :
    \A q \in DOMAIN rs : rs[q].groupCounter <= n

\* groupCounter as run r reads it: let groupCounter = 0 is local to the call
GroupCounterOf(rs, r) == rs[r].groupCounter

\* the function body down to the feature rows
RunStart(r) ==
  /\ runs[r].pc = "start"
  /\ LET rng == findDataColumnRange(rawData, config.startDataColumn)
         sel == selectedItemsMap(variationGroups)
     IN  runs' = [runs EXCEPT
           ![r] = [@ EXCEPT
             !.pc = "patterns", !.range = rng, !.selectedItemsMap = sel,
             !.headerRows = HeaderLoop(rawData, 0, config.startRow - 1, rng, <<>>),
             !.featureRows =
                FeatureRowsLoop(rawData, config.startRow - 1,
                                columnLetterToIndex(config.featureColumn),
                                columnLetterToIndex(config.itemColumn),
                                rng, sel, NoFeature, <<>>),
             !.colIndex = rng.start]]
  /\ UNCHANGED <<rawData, config, variationGroups, range, columnPatternMap,
                 analysisResult, firstMatchResult>>
  /\ UNCHANGED <<featureVars, codecVars, orderVars>>
  /\ UNCHANGED <<renameVars, pageVars>>

\* one turn of the loop that fills columnPatternMap, or its end
RunPattern(r) ==
  /\ runs[r].pc = "patterns"
  /\ runs' = [runs EXCEPT
       ![r] = IF @.colIndex <= @.range.end
              THEN [@ EXCEPT
                     !.columnPatternMap =
                        Append(@, [col |-> runs[r].colIndex,
                                   pattern |->
                                     extractColumnPattern(rawData, runs[r].colIndex,
                                       config, runs[r].selectedItemsMap)]),
                     !.colIndex = @ + 1]
              ELSE [@ EXCEPT !.pc = "groups"]]
  /\ UNCHANGED <<rawData, config, variationGroups, range, columnPatternMap,
                 analysisResult, firstMatchResult>>
  /\ UNCHANGED <<featureVars, codecVars, orderVars>>
  /\ UNCHANGED <<renameVars, pageVars>>

\* one turn of columnPatternMap.forEach, or its end
RunGroup(r) ==
  /\ runs[r].pc = "groups"
  /\ runs' = [runs EXCEPT
       ![r] = IF @.each <= Len(@.columnPatternMap)
              THEN LET acc == GroupStep([map |-> runs[r].patternToGroupMap,
                                         groupCounter |-> GroupCounterOf(runs, r)],
                                        runs[r].columnPatternMap[runs[r].each].pattern)
                   IN  [@ EXCEPT !.patternToGroupMap = acc.map,
                                 !.groupCounter = acc.groupCounter,
                                 !.each = @ + 1]
              ELSE [@ EXCEPT !.pc = "columns"]]
  /\ UNCHANGED <<rawData, config, variationGroups, range, columnPatternMap,
                 analysisResult, firstMatchResult>>
  /\ UNCHANGED <<featureVars, codecVars, orderVars>>
  /\ UNCHANGED <<renameVars, pageVars>>

\* the loop that pushes the column entries, and the return
RunColumns(r) ==
  /\ runs[r].pc = "columns"
  /\ runs' = [runs EXCEPT
       ![r] = [@ EXCEPT
         !.pc = "done",
         !.result =
            [headerRows |-> runs[r].headerRows,
             featureRows |-> runs[r].featureRows,
             columnPatterns |->
               [c \in 1..Len(runs[r].columnPatternMap) |->
                  ColumnEntry(rawData, config.startRow - 1,
                              runs[r].columnPatternMap[c],
                              runs[r].patternToGroupMap)],
             variationGroups |-> variationGroupsWithColor(variationGroups)]]]
  /\ UNCHANGED <<rawData, config, variationGroups, range, columnPatternMap,
                 analysisResult, firstMatchResult>>
  /\ UNCHANGED <<featureVars, codecVars, orderVars>>
  /\ UNCHANGED <<renameVars, pageVars>>

NextRuns ==
  \E r \in Runs : RunStart(r) \/ RunPattern(r) \/ RunGroup(r) \/ RunColumns(r)

SpecRuns == InitRuns /\ [][NextRuns]_vars

(***************************************************************************)
(* The same analysis asked twice, the second time with the features of     *)
(* the Selections, and the items of the features, listed in another order  *)
(***************************************************************************)
\* the permutations of 1..n
Perms(n) == { p \in [1..n -> 1..n] : \A i, j \in 1..n : i # j => p[i] # p[j] }

PermuteSeq(seq, p) == [i \in 1..Len(seq) |-> seq[p[i]]]

\* the ways to list the items of one selectedFeatures entry
ItemOrders(entry) ==
  { [name |-> entry.name, items |-> PermuteSeq(entry.items, p)] :
      p \in Perms(Len(entry.items)) }

\* the ways to list a Selection: its features in any order, the items of
\* each in any order
SelectionOrders(sel) ==
  LET entries == { es \in [1..Len(sel) -> UNION { ItemOrders(sel[i]) : i \in 1..Len(sel) }] :
                     \A i \in 1..Len(sel) : es[i] \in ItemOrders(sel[i]) }
  IN  { PermuteSeq(es, p) : es \in entries, p \in Perms(Len(sel)) }

\* the variation groups, each with its Selection listed in any order
GroupOrders(groups) ==
  LET orders(g) == { Group(groups[g].id, groups[g].name, sel) :
                       sel \in SelectionOrders(groups[g].selectedFeatures) }
  IN  { gs \in [1..Len(groups) -> UNION { orders(g) : g \in 1..Len(groups) }] :
          \A g \in 1..Len(groups) : gs[g] \in orders(g) }

InitOrder ==
  /\ \E in \in Inputs :
       /\ in.config.startDataColumn = <<"C">>
       /\ rawData = in.rawData
       /\ config = in.config
       /\ variationGroups = in.variationGroups
  /\ NoEngineRun /\ NoFeatureRun /\ NoCodecRun /\ NoRuns /\ NoPermutedRun
  /\ NoRename /\ NoPages

\* handleAnalyze with the variation groups listed in another order
AnalyzePermuted ==
  /\ permutedResult = Null
  /\ \E groups \in GroupOrders(variationGroups) :
       /\ permutedGroups' = groups
       /\ permutedPatternMap' =
            BuildColumnPatternMap(rawData, config,
              findDataColumnRange(rawData, config.startDataColumn), groups)
       /\ permutedResult' = analyzeVariations(rawData, config, groups)
  /\ UNCHANGED <<rawData, config, variationGroups, range, columnPatternMap,
                 analysisResult, firstMatchResult>>
  /\ UNCHANGED <<featureVars, codecVars, runVars>>
  /\ UNCHANGED <<renameVars, pageVars>>

NextOrder == Analyze \/ AnalyzePermuted

SpecOrder == InitOrder /\ [][NextOrder]_vars

(***************************************************************************)
(* Renaming the groups of an analysis.  The Analyze page of the grouping   *)
(* engine keeps the names typed for the groups, keyed by the numeric id of *)
(* the group; the Analyze page of the MAP/VARIANT engine keeps the ids     *)
(* typed for the MAP and VARIANT labels, keyed by the id of the label, and *)
(* hands them to updateLabels.                                             *)
(***************************************************************************)
NameA == <<"A">>

NameB == <<"B">>

NameBase == <<"B", "a", "s", "e">>

\* A VariationGroup that holds one VariationPattern.
NamedGroup(id, name, pattern, columns) ==
  [id |-> id, name |-> name,
   patterns |-> <<[id |-> <<"p">> \o NatToString(id), pattern |-> pattern,
                   columns |-> columns, itemNames |-> <<X>>]>>,
   color |-> colors[id]]

ColumnMapping(colKey, groupId, pattern) ==
  [colKey |-> colKey, groupIds |-> <<groupId>>, patterns |-> <<pattern>>]

\* A VariationAnalysis of three data columns in two groups; the groups are
\* numbered from 1 and the second one is named secondName.
NameAnalysis(secondName) ==
  [groups |-> <<NamedGroup(1, NameA, <<"O">>, << <<"C">>, <<"E">> >>),
                NamedGroup(2, secondName, <<"-">>, << <<"D">> >>)>>,
   columnMappings |-> <<ColumnMapping(<<"C">>, 1, <<"O">>),
                        ColumnMapping(<<"D">>, 2, <<"-">>),
                        ColumnMapping(<<"E">>, 1, <<"O">>)>>]

NameAnalyses == {NameAnalysis(NameB), NameAnalysis(NameBase)}

\* what the user can type in a name field
TypedNames == {<<>>, NameA, NameBase}

\* names[group.id] = group.name for every group of the analysis
InitialGroupNames(groups) ==
  [id \in {groups[i].id : i \in 1..Len(groups)} |->
     groups[CHOOSE i \in 1..Len(groups) : groups[i].id = id].name]

\* { ...obj, [key]: value }
WithEntry(obj, key, value) ==
  [k \in DOMAIN obj \cup {key} |-> IF k = key THEN value ELSE obj[k]]

\* the same, except that the group loses its colour
RenamedGroupUncoloured(group, groupNames) ==
  [id |-> group.id,
   name |-> IF groupNames[group.id] # <<>> THEN groupNames[group.id]
            ELSE group.name,
   patterns |-> group.patterns,
   color |-> <<>>]

\* { ...group, name: groupNames[group.id] || group.name }
RenamedGroup(group, groupNames) ==
  [group EXCEPT !.name = IF groupNames[group.id] # <<>>
                         THEN groupNames[group.id] ELSE group.name]

RECURSIVE MergeByName(_, _)
\* the same, except that a group whose name an earlier group carries is
\* dropped
MergeByName(groups, done) ==
  IF groups = <<>> THEN done
  ELSE IF \E i \in 1..Len(done) : done[i].name = Head(groups).name
       THEN MergeByName(Tail(groups), done)
       ELSE MergeByName(Tail(groups), Append(done, Head(groups)))

UpdatedGroupsMerged(groups, groupNames) ==
  MergeByName([i \in 1..Len(groups) |-> RenamedGroup(groups[i], groupNames)],
              <<>>)

RECURSIVE TypedOnly(_, _)
\* the same, except that only the groups with a typed name are kept
TypedOnly(groups, groupNames) ==
  IF groups = <<>> THEN <<>>
  ELSE IF groupNames[Head(groups).id] # <<>>
       THEN <<RenamedGroup(Head(groups), groupNames)>>
            \o TypedOnly(Tail(groups), groupNames)
       ELSE TypedOnly(Tail(groups), groupNames)

UpdatedGroupsTypedOnly(groups, groupNames) == TypedOnly(groups, groupNames)

\* groups.map((group) => ({ ...group, name: ... }))
UpdatedGroups(groups, groupNames) ==
  [i \in 1..Len(groups) |-> RenamedGroup(groups[i], groupNames)]

\* handleUpdateNames: the page after the handler; setGroups and
\* setVariationAnalysis are applied in one render.
handleUpdateNames(page) ==
  IF page.variationAnalysis = Null THEN page
  ELSE LET updatedGroups == UpdatedGroups(page.groups, page.groupNames)
       IN  [page EXCEPT
              !.groups = updatedGroups,
              !.variationAnalysis =
                 [page.variationAnalysis EXCEPT !.groups = updatedGroups]]

(***************************************************************************)
(* The labels of the MAP/VARIANT engine.  An id is a string (MAP) or a     *)
(* number (VARIANT); an object of renames is a function from the string of *)
(* the old id to the typed text.                                           *)
(***************************************************************************)
Label(id, pattern, color, columns) ==
  [id |-> id, pattern |-> pattern, color |-> color, columns |-> columns]

LabelMapping(columnKey, mapId, variantId) ==
  [columnKey |-> columnKey, mapId |-> mapId, variantId |-> variantId]

\* A VariationAnalysis of three data columns, two MAP labels and one
\* VARIANT label; the second MAP label has the id secondId.
LabelAnalysis(secondId) ==
  [maps |-> <<Label(Str(NameA), <<"O">>, colors[1], << <<"C">>, <<"E">> >>),
              Label(Str(secondId), <<"-">>, colors[2], << <<"D">> >>)>>,
   variants |-> <<Label(Num(1), <<"O", "-">>, colors[1],
                        << <<"C">>, <<"D">>, <<"E">> >>)>>,
   columnMappings |-> <<LabelMapping(<<"C">>, Str(NameA), Num(1)),
                        LabelMapping(<<"D">>, Str(secondId), Num(1)),
                        LabelMapping(<<"E">>, Str(NameA), Num(1))>>]

LabelAnalyses == {LabelAnalysis(NameB), LabelAnalysis(NameBase)}

\* what the user can type in the field of a MAP label, of a VARIANT label
TypedMapIds == {NameA, NameBase}

TypedVariantIds == {<<"7">>}

\* {}
EmptyObject == [k \in {} |-> <<>>]

\* the new id of a label: the text typed for its old id, the old id where
\* nothing was typed
RenamedId(id, renames) ==
  IF JsString(id) \in DOMAIN renames THEN Str(renames[JsString(id)]) ELSE id

RenamedLabels(labels, renames) ==
  [i \in 1..Len(labels) |->
     [labels[i] EXCEPT !.id = RenamedId(labels[i].id, renames)]]

\* the same, except that the column mappings keep the old ids
updateLabelsGroupsOnly(analysis, mapRenames, variantRenames) ==
  [analysis EXCEPT
     !.maps = RenamedLabels(analysis.maps, mapRenames),
     !.variants = RenamedLabels(analysis.variants, variantRenames)]

\* updateLabels(analysis, mapRenames, variantRenames): a new analysis in
\* which the id of every label and every column mapping that refers to it
\* are rewritten together
updateLabels(analysis, mapRenames, variantRenames) ==
  [maps |-> RenamedLabels(analysis.maps, mapRenames),
   variants |-> RenamedLabels(analysis.variants, variantRenames),
   columnMappings |->
     [i \in 1..Len(analysis.columnMappings) |->
        [analysis.columnMappings[i] EXCEPT
           !.mapId = RenamedId(analysis.columnMappings[i].mapId, mapRenames),
           !.variantId = RenamedId(analysis.columnMappings[i].variantId,
                                   variantRenames)]]]

\* handleUpdateLabels: the page after the handler; the five state setters
\* are applied in one render, and the effect that copies the labels of the
\* new analysis into the page finds them already there.
handleUpdateLabels(page) ==
  IF page.variationAnalysis = Null THEN page
  ELSE LET updated == updateLabels(page.variationAnalysis, page.mapRenames,
                                   page.variantRenames)
       IN  [variationAnalysis |-> updated,
            maps |-> updated.maps,
            variants |-> updated.variants,
            mapRenames |-> EmptyObject,
            variantRenames |-> EmptyObject]

(***************************************************************************)
(* The two pages as a state machine: the analysis is there, the user types *)
(* in the fields and presses the update button.  renameHistory records,    *)
(* for every update pressed, the analysis before it and what was typed.    *)
(***************************************************************************)
MaxRenames == 2

AppliedRename(before, request) == [before |-> before, request |-> request]

History(applied) == [applied |-> applied]

engineVars == <<rawData, config, variationGroups, range, columnPatternMap,
                analysisResult, firstMatchResult>>

NoEngine ==
  /\ rawData = <<>>
  /\ config = BaseConfig
  /\ variationGroups = <<>>
  /\ NoEngineRun /\ NoFeatureRun /\ NoCodecRun /\ NoRuns /\ NoPermutedRun

InitRename ==
  /\ \/ /\ \E analysis \in NameAnalyses :
             namesPage = [variationAnalysis |-> analysis,
                          groups |-> analysis.groups,
                          groupNames |-> InitialGroupNames(analysis.groups)]
        /\ labelsPage = Null
     \/ /\ \E analysis \in LabelAnalyses :
             labelsPage = [variationAnalysis |-> analysis,
                           maps |-> analysis.maps,
                           variants |-> analysis.variants,
                           mapRenames |-> EmptyObject,
                           variantRenames |-> EmptyObject]
        /\ namesPage = Null
  /\ renameHistory = History(<<>>)
  /\ NoEngine /\ NoPages

\* onChange of the name field of a group
TypeGroupName ==
  /\ namesPage # Null
  /\ \E i \in 1..Len(namesPage.groups), text \in TypedNames :
       namesPage' = [namesPage EXCEPT
                       !.groupNames = WithEntry(namesPage.groupNames,
                                                namesPage.groups[i].id, text)]
  /\ UNCHANGED <<labelsPage, renameHistory>>
  /\ UNCHANGED <<engineVars, featureVars, codecVars, runVars, orderVars,
                 pageVars>>

\* the Update Names button, shown while the page lists groups
UpdateNames ==
  /\ namesPage # Null
  /\ Len(namesPage.groups) > 0
  /\ Len(renameHistory.applied) < MaxRenames
  /\ namesPage' = handleUpdateNames(namesPage)
  /\ renameHistory' =
       History(Append(renameHistory.applied,
                      AppliedRename(namesPage.variationAnalysis,
                              namesPage.groupNames)))
  /\ UNCHANGED labelsPage
  /\ UNCHANGED <<engineVars, featureVars, codecVars, runVars, orderVars,
                 pageVars>>

\* onChange of the rename field of a MAP label
TypeMapRename ==
  /\ labelsPage # Null
  /\ \E i \in 1..Len(labelsPage.maps), text \in TypedMapIds :
       labelsPage' = [labelsPage EXCEPT
                        !.mapRenames =
                           WithEntry(labelsPage.mapRenames,
                                     JsString(labelsPage.maps[i].id), text)]
  /\ UNCHANGED <<namesPage, renameHistory>>
  /\ UNCHANGED <<engineVars, featureVars, codecVars, runVars, orderVars,
                 pageVars>>

\* onChange of the rename field of a VARIANT label
TypeVariantRename ==
  /\ labelsPage # Null
  /\ \E i \in 1..Len(labelsPage.variants), text \in TypedVariantIds :
       labelsPage' = [labelsPage EXCEPT
                        !.variantRenames =
                           WithEntry(labelsPage.variantRenames,
                                     JsString(labelsPage.variants[i].id),
                                     text)]
  /\ UNCHANGED <<namesPage, renameHistory>>
  /\ UNCHANGED <<engineVars, featureVars, codecVars, runVars, orderVars,
                 pageVars>>

\* the Update Labels button
UpdateLabels ==
  /\ labelsPage # Null
  /\ Len(renameHistory.applied) < MaxRenames
  /\ labelsPage' = handleUpdateLabels(labelsPage)
  /\ renameHistory' =
       History(Append(renameHistory.applied,
                      AppliedRename(labelsPage.variationAnalysis,
                              [maps |-> labelsPage.mapRenames,
                               variants |-> labelsPage.variantRenames])))
  /\ UNCHANGED namesPage
  /\ UNCHANGED <<engineVars, featureVars, codecVars, runVars, orderVars,
                 pageVars>>

NextRename ==
  \/ TypeGroupName
  \/ UpdateNames
  \/ TypeMapRename
  \/ TypeVariantRename
  \/ UpdateLabels

SpecRename == InitRename /\ [][NextRename]_vars

(***************************************************************************)
(* The Export page.  Arrays have identity: heap[r] is the array with the   *)
(* reference r, an array of rows holding [ref |-> r] for each row.  The    *)
(* imported rawData is the array 1 and its rows are the arrays after it;   *)
(* the arrays a handler makes are added behind them and are gone when the  *)
(* next handler starts.  A written file keeps the cells it was given.      *)
(***************************************************************************)
Ref(r) == [ref |-> r]

\* the heap that holds a grid as the array 1 and its rows
HeapOf(grid) ==
  <<[i \in 1..Len(grid) |-> Ref(i + 1)]>> \o grid

\* the rows of the array of rows r, cell by cell
Contents(heap, r) == [i \in 1..Len(heap[r]) |-> heap[heap[r][i].ref]]

\* data = rawData: the same array under another name
SpreadAliased(heap, r) == [heap |-> heap, ref |-> r]

\* [...array]: a new array with the same elements
Spread(heap, r) == [heap |-> Append(heap, heap[r]), ref |-> Len(heap) + 1]

\* array.push(row), the row being a new array
Push(heap, r, row) ==
  LET added == Append(heap, row)
  IN  [added EXCEPT ![r] = Append(@, Ref(Len(added)))]

\* new Array(n).fill("")
Filled(n) == [i \in 1..n |-> Str(<<>>)]

\* array[index] = value; the array grows, with holes, when the index is
\* not below its length
SetAt(array, index, value) ==
  [i \in 1..Max(Len(array), index + 1) |->
     IF i = index + 1 THEN value
     ELSE IF i <= Len(array) THEN array[i] ELSE Undefined]

\* array.slice(1)
SliceFromOne(array) == SubSeq(array, 2, Len(array))

\* lettersToNumber(letters): the number of the column, A being 1
lettersToNumber(letters) == columnLetterToIndex(letters) + 1

RECURSIVE SummaryRow(_, _, _)
\* the forEach over Object.entries(columnMappings), for the field kind
SummaryRow(row, columnMappings, kind) ==
  IF columnMappings = <<>> THEN row
  ELSE LET colIndex == lettersToNumber(Head(columnMappings).columnKey) - 1
       IN  SummaryRow(SetAt(row, colIndex,
                            IF kind = "MAP" THEN Head(columnMappings).mapId
                            ELSE Head(columnMappings).variantId),
                      Tail(columnMappings), kind)

\* `${labels.length} MAP`, `${labels.length} VARIANT`
CountLabel(labels, kind) ==
  Str(NatToString(Len(labels)) \o
      (IF kind = "MAP" THEN <<" ", "M", "A", "P">>
       ELSE <<" ", "V", "A", "R", "I", "A", "N", "T">>))

\* The variation sheet that both handlers build: the heap after it and the
\* array built, or thrown when rawData has no first row to take the length
\* of.
VariationSheet(heap, raw, analysis) ==
  IF Len(heap[raw]) = 0 THEN [thrown |-> TRUE]
  ELSE LET copy == Spread(heap, raw)
           data == copy.ref
           width == Len(copy.heap[copy.heap[data][1].ref])
           mapRow == SummaryRow(Filled(width), analysis.columnMappings,
                                "MAP")
           variantRow == SummaryRow(Filled(width), analysis.columnMappings,
                                    "VARIANT")
           separated == Push(copy.heap, data, <<>>)
           mapped == Push(separated, data,
                          <<CountLabel(analysis.maps, "MAP")>>
                            \o SliceFromOne(mapRow))
           done == Push(mapped, data,
                        <<CountLabel(analysis.variants, "VARIANT")>>
                          \o SliceFromOne(variantRow))
       IN  [thrown |-> FALSE, heap |-> done, ref |-> data]

\* [headers, ...variants.map(...)] of handleExportAll
VariantList(analysis) ==
  << <<Str(<<"V", "a", "r", "i", "a", "n", "t", " ", "I", "D">>),
       Str(<<"M", "A", "P", " ", "I", "D">>),
       Str(<<"C", "o", "l", "u", "m", "n", " ", "C", "o", "u", "n", "t">>)>> >>
  \o [i \in 1..Len(analysis.variants) |->
        <<analysis.variants[i].id,
          Str(<<"M", "u", "l", "t", "i", "p", "l", "e">>),
          Num(Len(analysis.variants[i].columns))>>]

Sheet(name, data) == [name |-> name, data |-> data]

File(filename, sheets) == [filename |-> filename, sheets |-> sheets]

\* the arrays that are there when a handler starts: rawData and its rows
Imported(page) == SubSeq(page.heap, 1, 1 + Len(page.heap[1]))

\* handleExportVariationSheet: the page after the handler.  A throw is
\* caught and nothing is written.
handleExportVariationSheet(page) ==
  LET built == VariationSheet(Imported(page), 1, page.variationAnalysis)
  IN  IF built.thrown
      THEN [page EXCEPT !.heap = Imported(page), !.failed = TRUE]
      ELSE [page EXCEPT
              !.heap = built.heap,
              !.data = built.ref,
              !.failed = FALSE,
              !.file = File("variation_analysis.xlsx",
                            <<Sheet("Variation",
                                    Contents(built.heap, built.ref))>>)]

\* handleExportAll
handleExportAll(page) ==
  LET built == VariationSheet(Imported(page), 1, page.variationAnalysis)
  IN  IF built.thrown
      THEN [page EXCEPT !.heap = Imported(page), !.failed = TRUE]
      ELSE [page EXCEPT
              !.heap = built.heap,
              !.data = built.ref,
              !.failed = FALSE,
              !.file = File("complete_analysis.xlsx",
                            <<Sheet("Variation",
                                    Contents(built.heap, built.ref)),
                              Sheet("Variant List",
                                    VariantList(page.variationAnalysis))>>)]

(***************************************************************************)
(* Inputs of the Export page: an imported grid of text cells, rows of the  *)
(* same length, and an analysis of its data columns                        *)
(***************************************************************************)
MaxExportRows == 2

ExportWidth == 3

ExportCells == {Str(<<>>), Str(<<"O">>)}

ExportRows == [1..ExportWidth -> ExportCells]

ExportGrids ==
  UNION {[1..n -> ExportRows] : n \in 0..MaxExportRows}

\* the column keys of the data columns, which start at B or at C
ExportColumns == {<< <<"B">>, <<"C">> >>, << <<"C">> >>}

\* An analysis of the data columns: every column has the VARIANT 1, and a
\* MAP label of its own or the label of the first column.
ExportAnalysis(columns, shared) ==
  LET mapOf(c) == IF shared \/ c = 1 THEN Str(NameA) ELSE Str(NameB)
  IN  [maps |-> IF shared \/ Len(columns) = 1
                THEN <<Label(Str(NameA), <<"O">>, colors[1], columns)>>
                ELSE <<Label(Str(NameA), <<"O">>, colors[1], <<columns[1]>>),
                       Label(Str(NameB), <<"-">>, colors[2], <<columns[2]>>)>>,
       variants |-> <<Label(Num(1), <<"O">>, colors[1], columns)>>,
       columnMappings |->
         [c \in 1..Len(columns) |->
            LabelMapping(columns[c], mapOf(c), Num(1))]]

ExportAnalyses ==
  {ExportAnalysis(columns, shared) :
     columns \in ExportColumns, shared \in BOOLEAN}

InitExport ==
  /\ \E grid \in ExportGrids, analysis \in ExportAnalyses :
       exportPage = [heap |-> HeapOf(grid),
                     imported |-> grid,
                     variationAnalysis |-> analysis,
                     data |-> 0,
                     failed |-> FALSE,
                     file |-> Null]
  /\ configCall = Null /\ configurePage = Null
  /\ NoEngine /\ NoRename

ExportVariationSheet ==
  /\ exportPage # Null
  /\ exportPage' = handleExportVariationSheet(exportPage)
  /\ UNCHANGED <<configCall, configurePage>>
  /\ UNCHANGED <<engineVars, featureVars, codecVars, runVars, orderVars,
                 renameVars>>

ExportAll ==
  /\ exportPage # Null
  /\ exportPage' = handleExportAll(exportPage)
  /\ UNCHANGED <<configCall, configurePage>>
  /\ UNCHANGED <<engineVars, featureVars, codecVars, runVars, orderVars,
                 renameVars>>

NextExport == ExportVariationSheet \/ ExportAll

SpecExport == InitExport /\ [][NextExport]_vars

(***************************************************************************)
(* parseConfiguration and validateConfiguration.  The sheet is an array of *)
(* rows; row 1 holds, after the first feature, the feature column, the     *)
(* start row and the data start column.  NaN is a value of its own.        *)
(***************************************************************************)
NaN == [k |-> "NaN", s |-> <<>>, n |-> 0]

\* String(v || fallback)
StringOr(v, fallback) == IF Truthy(v) THEN JsString(v) ELSE fallback

IsDigit(c) == \E i \in 1..10 : Digits[i] = c

DigitValue(c) == (CHOOSE i \in 1..10 : Digits[i] = c) - 1

RECURSIVE DigitsPrefix(_, _)
\* the value of the digits a string starts with, after the value so far
DigitsPrefix(s, value) ==
  IF s # <<>> /\ IsDigit(Head(s))
  THEN DigitsPrefix(Tail(s), 10 * value + DigitValue(Head(s)))
  ELSE value

\* parseInt(s): white space, a sign, digits; NaN without a digit
parseInt(s) ==
  LET t == TrimStart(s)
      signed == t # <<>> /\ Head(t) \in {"-", "+"}
      digits == IF signed THEN Tail(t) ELSE t
  IN  IF digits = <<>> \/ ~IsDigit(Head(digits)) THEN NaN
      ELSE IF signed /\ Head(t) = "-" THEN Num(0 - DigitsPrefix(digits, 0))
      ELSE Num(DigitsPrefix(digits, 0))

\* cell === 1 || cell === "1"
IsOne(cell) == cell = Num(1) \/ cell = Str(<<"1">>)

RECURSIVE ConfigFeatures(_, _, _)
\* the loop over the rows from index 1 to the first row without a name
ConfigFeatures(data, i, found) ==
  IF i >= Len(data) THEN found
  ELSE LET name == CellText(data, i, 0)
       IN  IF name = <<>> THEN found
           ELSE ConfigFeatures(data, i + 1,
                  Append(found,
                         [name |-> name,
                          useForMap |-> IsOne(CellAt(data, i, 1)),
                          useForVariant |-> IsOne(CellAt(data, i, 2))]))

parseConfiguration(data) ==
  [features |-> ConfigFeatures(data, 1, <<>>),
   featureColumn |-> Trim(StringOr(CellAt(data, 1, 3), <<"M">>)),
   startRow |-> parseInt(StringOr(CellAt(data, 1, 4), <<"1", "9">>)),
   dataStartColumn |-> Trim(StringOr(CellAt(data, 1, 5), <<"V">>))]

\* /^[A-Z]+$/.test(s)
UpperCaseLetters(s) ==
  s # <<>> /\ \A i \in 1..Len(s) : \E j \in 1..26 : UpperLetters[j] = s[i]

\* the errors in the order they are pushed
validateConfiguration(cfg) ==
  LET errors ==
        (IF Len(cfg.features) = 0 THEN <<"No features defined">> ELSE <<>>)
        \o (IF cfg.featureColumn = <<>>
               \/ ~UpperCaseLetters(cfg.featureColumn)
            THEN <<"Invalid feature column">> ELSE <<>>)
        \o (IF ~Truthy(cfg.startRow) \/ cfg.startRow.n < 1
            THEN <<"Invalid start row">> ELSE <<>>)
        \o (IF cfg.dataStartColumn = <<>>
               \/ ~UpperCaseLetters(cfg.dataStartColumn)
            THEN <<"Invalid data start column">> ELSE <<>>)
  IN  [valid |-> Len(errors) = 0, errors |-> errors]

(***************************************************************************)
(* Inputs: configuration sheets of a header row and up to MaxConfigRows    *)
(* rows                                                                    *)
(***************************************************************************)
MaxConfigRows == 1

ConfigHeader ==
  <<Str(<<"F">>), Str(<<"M">>), Str(<<"V">>), Str(<<"C">>), Str(<<"R">>),
    Str(<<"D">>)>>

FlagCells == {Num(1), Str(<<"1">>), Num(0)}

ColumnCells == {Undefined, Str(<<>>), Str(<<"C">>), Str(<<"c">>), Str(<<"3">>)}

StartRowCells ==
  {Undefined, Num(0), Num(5), Str(<<"7">>), Str(<<"-", "3">>), Str(<<"x">>)}

\* the row that holds the settings: a feature name or none, and the cells
ConfigRows ==
  {<<name, flag, Num(1), featureColumn, startRow, dataStartColumn>> :
     name \in {Str(<<>>), Str(<<"T">>)}, flag \in FlagCells,
     featureColumn \in ColumnCells, startRow \in StartRowCells,
     dataStartColumn \in {Undefined, Str(<<"E">>)}}

\* a further feature row
FeatureOnlyRows == {<<Str(<<"U">>), Num(1), Str(<<"1">>)>>}

RECURSIVE ConfigSheets(_)
\* the sheets with the header, the settings row and up to n rows in all
ConfigSheets(n) ==
  IF n = 0 THEN {<<ConfigHeader>>}
  ELSE IF n = 1
       THEN ConfigSheets(0) \cup {<<ConfigHeader, row>> : row \in ConfigRows}
  ELSE ConfigSheets(n - 1)
       \cup {Append(sheet, row) :
               sheet \in {s \in ConfigSheets(n - 1) : Len(s) = n},
               row \in FeatureOnlyRows}

InitConfig ==
  /\ \E data \in ConfigSheets(MaxConfigRows) :
       configCall = [data |-> data, configuration |-> Null,
                     validation |-> Null]
  /\ exportPage = Null /\ configurePage = Null
  /\ NoEngine /\ NoRename

\* onDropConfig: the sheet is parsed and the result becomes the
\* configuration of the project
ParseConfiguration ==
  /\ configCall # Null
  /\ configCall.configuration = Null
  /\ configCall' = [configCall EXCEPT
                      !.configuration = parseConfiguration(configCall.data)]
  /\ UNCHANGED <<exportPage, configurePage>>
  /\ UNCHANGED <<engineVars, featureVars, codecVars, runVars, orderVars,
                 renameVars>>

\* validateConfiguration called on the configuration of the project
ValidateConfiguration ==
  /\ configCall # Null
  /\ configCall.configuration # Null
  /\ configCall.validation = Null
  /\ configCall' = [configCall EXCEPT
                      !.validation =
                         validateConfiguration(configCall.configuration)]
  /\ UNCHANGED <<exportPage, configurePage>>
  /\ UNCHANGED <<engineVars, featureVars, codecVars, runVars, orderVars,
                 renameVars>>

NextConfig == ParseConfiguration \/ ValidateConfiguration

SpecConfig == InitConfig /\ [][NextConfig]_vars

(***************************************************************************)
(* The Configure page: the list of variation groups, the active group and  *)
(* the features and items ticked for it.  Date.now() is a clock that does  *)
(* not go back and may stand still between two clicks.                     *)
(***************************************************************************)
\* `group-${Date.now()}`
GroupIdAt(now) == <<"g", "r", "o", "u", "p", "-">> \o NatToString(now)

\* `Variation ${variationGroups.length + 1}`
DefaultGroupName(n) ==
  <<"V", "a", "r", "i", "a", "t", "i", "o", "n", " ">> \o NatToString(n)

\* variationGroups.find((g) => g.id === activeGroupId): the place of the
\* active group in the list, 0 when there is none
ActiveIndex(page) ==
  IF \E g \in 1..Len(page.variationGroups) :
       page.variationGroups[g].id = page.activeGroupId
  THEN CHOOSE g \in 1..Len(page.variationGroups) :
         /\ page.variationGroups[g].id = page.activeGroupId
         /\ \A h \in 1..(g - 1) :
              page.variationGroups[h].id # page.activeGroupId
  ELSE 0

\* updated[name] = items
SetKey(obj, name, items) ==
  IF HasKey(obj, name)
  THEN [i \in 1..Len(obj) |->
          IF obj[i].name = name THEN [name |-> name, items |-> items]
          ELSE obj[i]]
  ELSE Append(obj, [name |-> name, items |-> items])

\* delete updated[name]
DeleteKey(obj, name) == SelectSeq(obj, LAMBDA entry : entry.name # name)

\* variationGroups.map((g) => g.id === activeGroupId ? { ...g,
\* selectedFeatures: updated } : g)
WithSelection(page, updated) ==
  [page EXCEPT !.variationGroups =
     [g \in 1..Len(page.variationGroups) |->
        IF page.variationGroups[g].id = page.activeGroupId
        THEN [page.variationGroups[g] EXCEPT !.selectedFeatures = updated]
        ELSE page.variationGroups[g]]]

handleAddVariationGroup(page, now) ==
  [page EXCEPT
     !.variationGroups =
        Append(page.variationGroups,
               [id |-> GroupIdAt(now),
                name |-> DefaultGroupName(Len(page.variationGroups) + 1),
                selectedFeatures |-> <<>>]),
     !.activeGroupId = GroupIdAt(now),
     !.searchQuery = <<>>]

\* the same, except that the active group is left as it is
handleRemoveVariationGroupOnly(page, id) ==
  [page EXCEPT
     !.variationGroups = SelectSeq(page.variationGroups,
                                   LAMBDA g : g.id # id)]

handleRemoveVariationGroup(page, id) ==
  LET updated == SelectSeq(page.variationGroups, LAMBDA g : g.id # id)
  IN  [page EXCEPT
         !.variationGroups = updated,
         !.activeGroupId =
            IF page.activeGroupId = id
            THEN IF updated # <<>> /\ updated[1].id # <<>>
                 THEN updated[1].id ELSE NullId
            ELSE page.activeGroupId]

handleUpdateGroupName(page, id, name) ==
  [page EXCEPT !.variationGroups =
     [g \in 1..Len(page.variationGroups) |->
        IF page.variationGroups[g].id = id
        THEN [page.variationGroups[g] EXCEPT !.name = name]
        ELSE page.variationGroups[g]]]

handleToggleFeature(page, featureName) ==
  IF ActiveIndex(page) = 0 THEN page
  ELSE LET selected ==
             page.variationGroups[ActiveIndex(page)].selectedFeatures
       IN  WithSelection(page,
             IF HasKey(selected, featureName)
             THEN DeleteKey(selected, featureName)
             ELSE SetKey(selected, featureName, <<>>))

handleToggleItem(page, featureName, itemName) ==
  IF ActiveIndex(page) = 0 THEN page
  ELSE LET selected ==
             page.variationGroups[ActiveIndex(page)].selectedFeatures
           items == IF HasKey(selected, featureName)
                    THEN Get(selected, featureName) ELSE <<>>
           filtered == SelectSeq(items, LAMBDA i : i # itemName)
       IN  WithSelection(page,
             IF Includes(items, itemName)
             THEN IF filtered = <<>> THEN DeleteKey(selected, featureName)
                  ELSE SetKey(selected, featureName, filtered)
             ELSE SetKey(selected, featureName, Append(items, itemName)))

handleSelectAllItems(page, featureName) ==
  IF ActiveIndex(page) = 0 \/ ~HasKey(page.allFeatures, featureName)
  THEN page
  ELSE WithSelection(page,
         SetKey(page.variationGroups[ActiveIndex(page)].selectedFeatures,
                featureName, Get(page.allFeatures, featureName)))

handleDeselectAllItems(page, featureName) ==
  IF ActiveIndex(page) = 0 THEN page
  ELSE WithSelection(page,
         DeleteKey(page.variationGroups[ActiveIndex(page)].selectedFeatures,
                   featureName))

\* the check of handleContinue: there is a group, and every group has a
\* key in selectedFeatures
ContinueAllowed(page) ==
  /\ Len(page.variationGroups) > 0
  /\ \A g \in 1..Len(page.variationGroups) :
       Len(page.variationGroups[g].selectedFeatures) > 0

handleContinue(page) ==
  IF ContinueAllowed(page) THEN [page EXCEPT !.location = "/analyze"]
  ELSE page

MaxGroups == 2

MaxClock == 2

\* the features the page extracted from the sheet: one feature with two
\* items, or with the same item name twice
FeatureLists ==
  {<<[name |-> T, items |-> <<X, Y>>]>>, <<[name |-> T, items |-> <<X, X>>]>>}

TypedGroupNames == {<<"N">>}

InitConfigure ==
  /\ \E allFeatures \in FeatureLists :
       configurePage = [allFeatures |-> allFeatures,
                        variationGroups |-> <<>>,
                        activeGroupId |-> NullId,
                        searchQuery |-> <<>>,
                        clock |-> 1,
                        location |-> "/configure"]
  /\ exportPage = Null /\ configCall = Null
  /\ NoEngine /\ NoRename

Configuring == configurePage # Null /\ configurePage.location = "/configure"

\* the Add Variation button; the clock is read
AddVariationGroup ==
  /\ Configuring
  /\ Len(configurePage.variationGroups) < MaxGroups
  /\ \E now \in configurePage.clock..MaxClock :
       configurePage' =
         [handleAddVariationGroup(configurePage, now) EXCEPT !.clock = now]
  /\ UNCHANGED <<exportPage, configCall>>
  /\ UNCHANGED <<engineVars, featureVars, codecVars, runVars, orderVars,
                 renameVars>>

\* the remove button of a tab, shown while there is more than one group
RemoveVariationGroup ==
  /\ Configuring
  /\ Len(configurePage.variationGroups) > 1
  /\ \E g \in 1..Len(configurePage.variationGroups) :
       configurePage' =
         handleRemoveVariationGroup(configurePage,
                                    configurePage.variationGroups[g].id)
  /\ UNCHANGED <<exportPage, configCall>>
  /\ UNCHANGED <<engineVars, featureVars, codecVars, runVars, orderVars,
                 renameVars>>

\* a click on a tab
SelectTab ==
  /\ Configuring
  /\ \E g \in 1..Len(configurePage.variationGroups) :
       configurePage' =
         [configurePage EXCEPT
            !.activeGroupId = configurePage.variationGroups[g].id]
  /\ UNCHANGED <<exportPage, configCall>>
  /\ UNCHANGED <<engineVars, featureVars, codecVars, runVars, orderVars,
                 renameVars>>

\* the name field of the active group
UpdateGroupName ==
  /\ Configuring
  /\ ActiveIndex(configurePage) # 0
  /\ \E name \in TypedGroupNames :
       configurePage' =
         handleUpdateGroupName(configurePage, configurePage.activeGroupId,
                               name)
  /\ UNCHANGED <<exportPage, configCall>>
  /\ UNCHANGED <<engineVars, featureVars, codecVars, runVars, orderVars,
                 renameVars>>

\* the features the card of the active group lists, and whether one is
\* ticked there
Listed(f) ==
  /\ ActiveIndex(configurePage) # 0
  /\ f \in 1..Len(configurePage.allFeatures)

Ticked(f) ==
  /\ Listed(f)
  /\ HasKey(configurePage.variationGroups[ActiveIndex(configurePage)]
              .selectedFeatures,
            configurePage.allFeatures[f].name)

\* the checkbox of a feature
ToggleFeature ==
  /\ Configuring
  /\ \E f \in 1..Len(configurePage.allFeatures) :
       /\ Listed(f)
       /\ configurePage' =
            handleToggleFeature(configurePage,
                                configurePage.allFeatures[f].name)
  /\ UNCHANGED <<exportPage, configCall>>
  /\ UNCHANGED <<engineVars, featureVars, codecVars, runVars, orderVars,
                 renameVars>>

\* the checkbox of an item, shown under a ticked feature
ToggleItem ==
  /\ Configuring
  /\ \E f \in 1..Len(configurePage.allFeatures) :
       /\ Ticked(f)
       /\ \E i \in 1..Len(configurePage.allFeatures[f].items) :
            configurePage' =
              handleToggleItem(configurePage,
                               configurePage.allFeatures[f].name,
                               configurePage.allFeatures[f].items[i])
  /\ UNCHANGED <<exportPage, configCall>>
  /\ UNCHANGED <<engineVars, featureVars, codecVars, runVars, orderVars,
                 renameVars>>

\* Select All, shown under a ticked feature that has items
SelectAllItems ==
  /\ Configuring
  /\ \E f \in 1..Len(configurePage.allFeatures) :
       /\ Ticked(f)
       /\ Len(configurePage.allFeatures[f].items) > 0
       /\ configurePage' =
            handleSelectAllItems(configurePage,
                                 configurePage.allFeatures[f].name)
  /\ UNCHANGED <<exportPage, configCall>>
  /\ UNCHANGED <<engineVars, featureVars, codecVars, runVars, orderVars,
                 renameVars>>

\* Deselect All, shown next to Select All
DeselectAllItems ==
  /\ Configuring
  /\ \E f \in 1..Len(configurePage.allFeatures) :
       /\ Ticked(f)
       /\ Len(configurePage.allFeatures[f].items) > 0
       /\ configurePage' =
            handleDeselectAllItems(configurePage,
                                   configurePage.allFeatures[f].name)
  /\ UNCHANGED <<exportPage, configCall>>
  /\ UNCHANGED <<engineVars, featureVars, codecVars, runVars, orderVars,
                 renameVars>>

\* the Continue button
Continue ==
  /\ Configuring
  /\ configurePage' = handleContinue(configurePage)
  /\ UNCHANGED <<exportPage, configCall>>
  /\ UNCHANGED <<engineVars, featureVars, codecVars, runVars, orderVars,
                 renameVars>>

NextConfigure ==
  \/ AddVariationGroup
  \/ RemoveVariationGroup
  \/ SelectTab
  \/ UpdateGroupName
  \/ ToggleFeature
  \/ ToggleItem
  \/ SelectAllItems
  \/ DeselectAllItems
  \/ Continue

SpecConfigure == InitConfigure /\ [][NextConfigure]_vars

(***************************************************************************)
(* Properties of the grouping engine                                       *)
(***************************************************************************)
Analyzed == analysisResult # Null

ColumnCount == Len(analysisResult.columnPatterns)

PatternOf(c) == columnPatternMap[c].pattern

GroupOf(c) == analysisResult.columnPatterns[c].variationGroup

\* C1: in one run of analyzeVariations, two data columns with identical
\* patterns get the same group id; when all data columns have the same
\* pattern, one group id covers them all.
SamePatternSameGroup ==
  Analyzed =>
    /\ \A i, j \in 1..ColumnCount :
         PatternOf(i) = PatternOf(j) => GroupOf(i) = GroupOf(j)
    /\ (\A i, j \in 1..ColumnCount : PatternOf(i) = PatternOf(j))
         => Cardinality({GroupOf(c) : c \in 1..ColumnCount}) = 1

\* C1 witness: a run with more groups than letters in which two columns,
\* not adjacent, carry the same non-empty pattern and the same group id.
SamePatternSameGroupWitness ==
  /\ Analyzed
  /\ \E i, j \in 1..ColumnCount :
       /\ j > i + 1
       /\ PatternOf(i) # <<>>
       /\ PatternOf(i) = PatternOf(j)
       /\ GroupOf(i) = GroupOf(j)
       /\ \E k \in (i + 1)..(j - 1) : PatternOf(k) # PatternOf(i)

\* C2: in one run of analyzeVariations, two data columns with different
\* patterns never get the same group id, however many patterns there are.
DistinctPatternDistinctGroup ==
  Analyzed =>
    \A i, j \in 1..ColumnCount :
      PatternOf(i) # PatternOf(j) => GroupOf(i) # GroupOf(j)

\* the leftmost column that carries the pattern of column c
FirstSeen(c) ==
  CHOOSE i \in 1..c :
    PatternOf(i) = PatternOf(c) /\ \A j \in 1..(i - 1) : PatternOf(j) # PatternOf(c)

\* the place of a group id in the id sequence A, B, ..., Z
IdRank(id) == IndexOf(groupLetters, id)

\* C3: group ids follow first-seen order over the columns left to right:
\* the leftmost column's group has the first id, and a pattern first seen
\* further left never has a later id than one first seen further right.
FirstSeenOrder ==
  Analyzed =>
    /\ GroupOf(1) = groupLetters[1]
    /\ \A i, j \in 1..ColumnCount :
         FirstSeen(i) < FirstSeen(j) => IdRank(GroupOf(i)) <= IdRank(GroupOf(j))

\* C4: the group id recorded for each column is the id of an entry of the
\* groups list of the same result.
ColumnGroupInGroups ==
  Analyzed =>
    \A c \in 1..ColumnCount :
      \E g \in 1..Len(analysisResult.variationGroups) :
        analysisResult.variationGroups[g].id = GroupOf(c)

\* the index of a column letter, by search over the letters of the indexes
LetterIndex(letter) ==
  CHOOSE i \in 0..(2 * Len(UpperLetters)) : indexToColumnLetter(i) = letter

\* C5: the result has exactly one column entry per column index of the data
\* range [start, end], in left-to-right order, and no column letter twice.
OneEntryPerDataColumn ==
  Analyzed =>
    /\ ColumnCount = range.end - range.start + 1
    /\ \A c \in 1..ColumnCount :
         columnLetterToIndex(analysisResult.columnPatterns[c].columnLetter)
           = range.start + c - 1
    /\ \A i, j \in 1..ColumnCount :
         i # j => analysisResult.columnPatterns[i].columnLetter
                    # analysisResult.columnPatterns[j].columnLetter

\* C5 witness: a result whose data range runs past column Z, with an entry
\* for Z and an entry for AA.
OneEntryPerDataColumnWitness ==
  /\ Analyzed
  /\ range.end - range.start + 1 > Len(UpperLetters)
  /\ \E c \in 1..(ColumnCount - 1) :
       /\ analysisResult.columnPatterns[c].columnLetter = <<"Z">>
       /\ analysisResult.columnPatterns[c + 1].columnLetter = <<"A", "A">>

(***************************************************************************)
(* Properties of pattern building                                          *)
(***************************************************************************)
\* the rows the scan visits before it stops, each with the feature it
\* belongs to (its own, or the one continued from above) and its item
RECURSIVE ScanLoop(_, _, _, _)
ScanLoop(data, cfg, i, currentFeature) ==
  IF ScanStops(data, i, columnLetterToIndex(cfg.featureColumn),
               columnLetterToIndex(cfg.itemColumn))
  THEN <<>>
  ELSE
    LET featureName == CellText(data, i, columnLetterToIndex(cfg.featureColumn))
        current == IF featureName # <<>> THEN featureName ELSE currentFeature
    IN  <<[row |-> i, feature |-> current,
           item |-> CellText(data, i, columnLetterToIndex(cfg.itemColumn))]>>
          \o ScanLoop(data, cfg, i + 1, current)

ScanRows == ScanLoop(rawData, config, config.startRow - 1, NoFeature)

\* the (feature, item) pairs of a Selection, in Selection order
RECURSIVE SelectedPairs(_)
SelectedPairs(sel) ==
  IF sel = <<>> THEN <<>>
  ELSE [p \in 1..Len(Head(sel).items) |->
          [feature |-> Head(sel).name, item |-> Head(sel).items[p]]]
         \o SelectedPairs(Tail(sel))

\* the Selection of a run: the selected items of all groups together
RunSelection == selectedItemsMap(variationGroups)

IsSelected(sel, feature, item) ==
  feature # NoFeature /\ HasKey(sel, feature) /\ Includes(Get(sel, feature), item)

\* the scanned rows that carry a selected (feature, item) pair, top to bottom
SelectedRows(sel) ==
  SelectSeq(ScanRows, LAMBDA r : IsSelected(sel, r.feature, r.item))

ColumnIndexOf(c) == columnPatternMap[c].col

\* the marks of column c for the pairs of one Selection alone
MarksFor(c, sel) ==
  extractColumnPattern(rawData, ColumnIndexOf(c), config, sel)

\* C6: with several Selections in one analysis, the group a column gets for
\* a Selection S depends only on the marks of S's pairs: two columns that
\* agree on every mark of S share a group, whatever their other marks
\* (stated for the Selections that have marks in the grid).
GroupPerSelection ==
  Analyzed =>
    \A g \in 1..Len(variationGroups) :
      \A i, j \in 1..ColumnCount :
        /\ MarksFor(i, variationGroups[g].selectedFeatures) # <<>>
        /\ MarksFor(i, variationGroups[g].selectedFeatures)
             = MarksFor(j, variationGroups[g].selectedFeatures)
        => GroupOf(i) = GroupOf(j)

\* the mark of one selected pair in one column: O when a row of the pair is
\* marked O there
PairMark(col, pair) ==
  IF \E k \in 1..Len(ScanRows) :
       /\ ScanRows[k].feature = pair.feature
       /\ ScanRows[k].item = pair.item
       /\ Mark(CellText(rawData, ScanRows[k].row, col)) = "O"
  THEN <<"O">> ELSE <<"-">>

\* one mark per selected pair, in Selection order, joined by the delimiter
SelectionPattern(col, sel) ==
  LET pairs == SelectedPairs(sel)
  IN  Join([p \in 1..Len(pairs) |-> PairMark(col, pairs[p])], <<"|">>)

\* every selected pair of the Selection is carried by exactly one scanned row
PairsOccurOnce(sel) ==
  LET pairs == SelectedPairs(sel)
  IN  \A p \in 1..Len(pairs) :
        Cardinality({k \in 1..Len(ScanRows) :
                       /\ ScanRows[k].feature = pairs[p].feature
                       /\ ScanRows[k].item = pairs[p].item}) = 1

\* C7: the pattern of every column has exactly one mark per selected
\* (feature, item) pair, in Selection order, joined by one fixed delimiter:
\* rows [T,X,O,-],[blank,Y,O,O] with Selection {T:[X,Y]} give O|O and -|O
\* (stated for a single Selection whose pairs each occur once in the grid).
OneMarkPerSelectedPair ==
  (Len(variationGroups) = 1
     /\ PairsOccurOnce(variationGroups[1].selectedFeatures)) =>
  /\ Analyzed =>
       \A c \in 1..ColumnCount :
         PatternOf(c)
           = SelectionPattern(ColumnIndexOf(c), variationGroups[1].selectedFeatures)
  /\ firstMatchResult # Null =>
       \A c \in 1..Len(firstMatchResult.columnPatterns) :
         firstMatchResult.columnPatterns[c].pattern
           = SelectionPattern(
               columnLetterToIndex(firstMatchResult.columnPatterns[c].columnLetter),
               variationGroups[1].selectedFeatures)

\* String.prototype.toUpperCase on the letters
ToUpper(s) ==
  [i \in 1..Len(s) |->
     IF Includes(LowerLetters, s[i])
     THEN UpperLetters[IndexOf(LowerLetters, s[i]) + 1] ELSE s[i]]

\* the cell holds text that is O once trimmed, whatever its letter case
Applied(cell) == cell.k = "string" /\ ToUpper(Trim(cell.s)) = <<"O">>

\* C8: a cell contributes the mark O exactly when its value, trimmed and
\* ignoring letter case, is "O"; every other cell contributes -.
MarkIffApplied ==
  Analyzed =>
    LET rows == SelectedRows(RunSelection)
    IN  \A c \in 1..ColumnCount :
          PatternOf(c)
            = [k \in 1..Len(rows) |->
                 IF Applied(CellAt(rawData, rows[k].row, ColumnIndexOf(c)))
                 THEN "O" ELSE "-"]

\* the feature names that occur in the feature column of the grid
GridFeatures ==
  {CellText(rawData, i, columnLetterToIndex(config.featureColumn)) :
     i \in 0..(Len(rawData) - 1)}

\* the marks of a pattern: its characters without the delimiter
Marks(pattern) == SelectSeq(pattern, LAMBDA ch : ch # "|")

\* C9: a Selection that names a feature absent from the grid raises no
\* error, and every column's pattern has a - mark at each position of that
\* feature, one per selected item of the feature.
AbsentFeatureMarks ==
  Analyzed =>
    LET pairs == SelectedPairs(RunSelection)
    IN  \A p \in 1..Len(pairs) :
          pairs[p].feature \notin GridFeatures =>
            \A c \in 1..ColumnCount :
              /\ p <= Len(Marks(PatternOf(c)))
              /\ Marks(PatternOf(c))[p] = "-"

(***************************************************************************)
(* Properties of the data column range                                     *)
(***************************************************************************)
\* the cell holds a scalar, text or number, whose trimmed text is not blank
NonBlankScalar(cell) ==
  cell.k \in {"string", "number"} /\ Trim(JsString(cell)) # <<>>

PopulatedColumns ==
  {j \in 0..Len(rawData[1]) :
     \E i \in 1..Len(rawData) : NonBlankScalar(At(rawData[i], j))}

\* C10: findDataColumnRange returns start = the index of the data start
\* column and end = the largest column index, over every row, whose cell
\* holds a scalar with a non-blank trimmed value; blank columns to the right
\* of the last populated column are excluded from end.
RangeEndsAtLastPopulated ==
  range # Null =>
    /\ range.start = LetterIndex(config.startDataColumn)
    /\ \A j \in PopulatedColumns : j <= range.end
    /\ range.end \in PopulatedColumns

(***************************************************************************)
(* Properties of the empty analysis                                        *)
(***************************************************************************)
\* no cell at or to the right of the data start column is populated
NoDataColumn == \A j \in PopulatedColumns : j < range.start

\* the Selection of the run matches no scanned row of the grid
NoSelectedRow == SelectedRows(RunSelection) = <<>>

\* C11: when no column falls in the data range, or the Selection matches no
\* grid row, analyzeVariations returns an empty analysis: no column entries
\* and no groups.
EmptyAnalysis ==
  (Analyzed /\ (NoDataColumn \/ NoSelectedRow)) =>
    /\ analysisResult.columnPatterns = <<>>
    /\ analysisResult.variationGroups = <<>>

(***************************************************************************)
(* Properties of feature extraction                                        *)
(***************************************************************************)
\* the trimmed text of a cell; blank for an absent cell or empty trimmed text
NameOf(data, i, j) ==
  IF NonBlankScalar(CellAt(data, i, j)) THEN Trim(JsString(CellAt(data, i, j)))
  ELSE <<>>

FeatureNameAt(i) == NameOf(rawData, i, columnLetterToIndex(config.featureColumn))

ItemNameAt(i) == NameOf(rawData, i, columnLetterToIndex(config.itemColumn))

\* the first row, from the start row down, that is absent or whose feature
\* and item cells are both blank
StopRow ==
  CHOOSE i \in (config.startRow - 1)..Len(rawData) :
    /\ ~HasRow(rawData, i) \/ (FeatureNameAt(i) = <<>> /\ ItemNameAt(i) = <<>>)
    /\ \A k \in (config.startRow - 1)..(i - 1) :
         FeatureNameAt(k) # <<>> \/ ItemNameAt(k) # <<>>

\* the rows before the stopping row that start a Feature, top to bottom
FeatureStarts ==
  SelectSeq([k \in 1..(StopRow - config.startRow + 1) |-> config.startRow - 2 + k],
            LAMBDA i : FeatureNameAt(i) # <<>>)

\* the last row of the Feature started at FeatureStarts[k]
FeatureEnd(k) ==
  IF k < Len(FeatureStarts) THEN FeatureStarts[k + 1] - 1 ELSE StopRow - 1

\* the item names of the rows FeatureStarts[k]..FeatureEnd(k), top to bottom
ItemsOfFeature(k) ==
  LET rows == [r \in 1..(FeatureEnd(k) - FeatureStarts[k] + 1) |->
                 FeatureStarts[k] + r - 1]
      named == SelectSeq(rows, LAMBDA i : ItemNameAt(i) # <<>>)
  IN  [r \in 1..Len(named) |-> ItemNameAt(named[r])]

\* every row of the sheet holds the feature column and the item column
BothColumnsPresent ==
  \A i \in 1..Len(rawData) :
    Len(rawData[i]) > Max(columnLetterToIndex(config.featureColumn),
                          columnLetterToIndex(config.itemColumn))

\* C12: extractFeatures scans rows downward from the start row: each row
\* with a non-blank feature cell starts a new Feature that becomes current,
\* each row with a blank feature cell and a non-blank item cell appends an
\* Item to the current Feature, and the scan stops exactly at the first row
\* that is absent or whose feature and item cells are both blank: every row
\* before it is processed (stated for the sheets that hold both configured
\* columns).
ScanToFirstBlankRow ==
  (features # Null /\ BothColumnsPresent) =>
    /\ Len(features.v) = Len(FeatureStarts)
    /\ \A k \in 1..Len(features.v) :
         /\ features.v[k].name = FeatureNameAt(FeatureStarts[k])
         /\ [r \in 1..Len(features.v[k].items) |-> features.v[k].items[r].name]
              = ItemsOfFeature(k)

\* no name occurs twice in a sequence of named records
UniqueNames(list) ==
  \A a, b \in 1..Len(list) : a # b => list[a].name # list[b].name

\* C13: the list returned by extractFeatures has no two Features with the
\* same name, and no Feature with two Items of the same name.
UniqueFeatureAndItemNames ==
  features # Null =>
    /\ UniqueNames(features.v)
    /\ \A k \in 1..Len(features.v) : UniqueNames(features.v[k].items)

(***************************************************************************)
(* Properties of the column codec                                          *)
(***************************************************************************)
\* C14: for every column index i >= 0, columnLetterToIndex of
\* indexToColumnLetter(i) is i (A, ..., Z, AA, ... with no zero digit).
IndexRoundTrip ==
  (codecInput.k = "index" /\ codecInput.n >= 0 /\ codecBack # Null) =>
    codecBack.v = codecInput.n

\* C14 witness: the round trip of the first index with three letters, AAA,
\* has come back to the index.
IndexRoundTripWitness ==
  /\ codecInput.k = "index"
  /\ codecInput.n = 26 * 26 + 26
  /\ codecOutput = Returned(<<"A", "A", "A">>)
  /\ codecBack = Returned(codecInput.n)

Alphabetic(c) == Includes(UpperLetters, c) \/ Includes(LowerLetters, c)

\* a valid column letter string: one or more letters of either case
ValidLetters(s) == s # <<>> /\ \A i \in 1..Len(s) : Alphabetic(s[i])

\* C15: for every valid column letter string s, in upper, lower or mixed
\* case, indexToColumnLetter of columnLetterToIndex(s) is uppercase(s).
LetterRoundTrip ==
  (codecInput.k = "letter" /\ ValidLetters(codecInput.s) /\ codecBack # Null) =>
    codecBack.v = ToUpper(codecInput.s)

\* a call that has failed with the error e
Thrown(e) == [k |-> "thrown", e |-> e]

\* C16: columnLetterToIndex fails with InvalidColumnLetter, and returns no
\* index, on the empty string and on a string with a non-alphabetic
\* character.
InvalidLetterFails ==
  (codecInput.k = "letter" /\ ~ValidLetters(codecInput.s) /\ codecOutput # Null)
    => codecOutput = Thrown("InvalidColumnLetter")

\* C17: indexToColumnLetter fails with InvalidColumnIndex, and returns no
\* letters, on an index below 0.
NegativeIndexFails ==
  (codecInput.k = "index" /\ codecInput.n < 0 /\ codecOutput # Null)
    => codecOutput = Thrown("InvalidColumnIndex")

(***************************************************************************)
(* Properties of the colours                                               *)
(***************************************************************************)
\* the zero-based creation order of the group of column c: the number of
\* patterns first seen to the left of the first column with c's pattern
CreationOrder(c) ==
  Cardinality({i \in 1..(FirstSeen(c) - 1) : FirstSeen(i) = i})

ColourOf(c) == analysisResult.columnPatterns[c].backgroundColor

\* C18: the colour of every column is palette[k mod palette length], k being
\* the zero-based creation order of the column's group, for any number of
\* groups; so all columns of one group have the same colour.
ColourByCreationOrder ==
  Analyzed =>
    /\ \A c \in 1..ColumnCount :
         ColourOf(c) = colors[(CreationOrder(c) % Len(colors)) + 1]
    /\ \A i, j \in 1..ColumnCount :
         GroupOf(i) = GroupOf(j) => ColourOf(i) = ColourOf(j)

(***************************************************************************)
(* Determinism                                                             *)
(***************************************************************************)
RunDone(r) == runs[r].pc = "done"

\* C19: two runs of analyzeVariations on the same grid, configuration and
\* Selections return identical results (group ids, colours, column
\* mapping), however their steps interleave: each returns what a run on its
\* own returns.
RunsAgree ==
  \A r \in Runs :
    RunDone(r) =>
      /\ \A q \in Runs : RunDone(q) => runs[q].result = runs[r].result
      /\ runs[r].result = analyzeVariations(rawData, config, variationGroups)

\* C19 witness: all runs have returned the same result, one with at least
\* two groups over at least three columns.
RunsAgreeWitness ==
  /\ \A r \in Runs : RunDone(r) /\ runs[r].result = runs[1].result
  /\ Len(runs[1].result.columnPatterns) >= 3
  /\ \E i, j \in 1..Len(runs[1].result.columnPatterns) :
       runs[1].result.columnPatterns[i].variationGroup
         # runs[1].result.columnPatterns[j].variationGroup

(***************************************************************************)
(* Independence of the order of the Selection                              *)
(***************************************************************************)
BothAnalyzed == Analyzed /\ permutedResult # Null

\* C20: the pattern of a column does not depend on the order in which the
\* caller lists the features of the Selection or the items of a feature:
\* with either permuted, every column has the same pattern and the columns
\* are grouped the same.
PatternIgnoresSelectionOrder ==
  BothAnalyzed =>
    /\ Len(permutedPatternMap) = Len(columnPatternMap)
    /\ \A c \in 1..Len(columnPatternMap) :
         permutedPatternMap[c] = columnPatternMap[c]
    /\ permutedResult.columnPatterns = analysisResult.columnPatterns

\* C20 witness: both analyses are done, the second with the Selection listed
\* in another order, and a column's pattern has an O mark and a - mark, so
\* that the order of the marks shows.
PatternIgnoresSelectionOrderWitness ==
  /\ BothAnalyzed
  /\ permutedGroups # variationGroups
  /\ \E c \in 1..Len(columnPatternMap) :
       /\ Includes(PatternOf(c), "O") /\ Includes(PatternOf(c), "-")
       /\ permutedPatternMap[c].pattern = PatternOf(c)

(***************************************************************************)
(* Properties of renaming                                                  *)
(***************************************************************************)
RenameApplied == renameHistory # Null /\ Len(renameHistory.applied) > 0

\* the ids that the groups of a list carry
IdsOf(groups) == {groups[i].id : i \in 1..Len(groups)}

\* the columns that a group of the names page lists
GroupColumns(group) ==
  UNION {{group.patterns[p].columns[c] :
            c \in 1..Len(group.patterns[p].columns)} :
         p \in 1..Len(group.patterns)}

\* Every id of a column mapping is the id of a group of the list, the
\* column is one that a group with that id lists, and every column a group
\* lists is mapped to the id of the group.
NameReferencesAgree(groups, columnMappings) ==
  /\ \A m \in 1..Len(columnMappings) :
       \A g \in 1..Len(columnMappings[m].groupIds) :
         \E i \in 1..Len(groups) :
           /\ groups[i].id = columnMappings[m].groupIds[g]
           /\ columnMappings[m].colKey \in GroupColumns(groups[i])
  /\ \A i \in 1..Len(groups) :
       \A col \in GroupColumns(groups[i]) :
         \E m \in 1..Len(columnMappings) :
           /\ columnMappings[m].colKey = col
           /\ \E g \in 1..Len(columnMappings[m].groupIds) :
                columnMappings[m].groupIds[g] = groups[i].id

LabelColumns(label) == {label.columns[c] : c \in 1..Len(label.columns)}

LabelReferencesAgree(maps, variants, columnMappings) ==
  /\ \A m \in 1..Len(columnMappings) :
       /\ \E i \in 1..Len(maps) :
            /\ maps[i].id = columnMappings[m].mapId
            /\ columnMappings[m].columnKey \in LabelColumns(maps[i])
       /\ \E i \in 1..Len(variants) :
            /\ variants[i].id = columnMappings[m].variantId
            /\ columnMappings[m].columnKey \in LabelColumns(variants[i])
  /\ \A i \in 1..Len(maps) :
       \A col \in LabelColumns(maps[i]) :
         \E m \in 1..Len(columnMappings) :
           /\ columnMappings[m].columnKey = col
           /\ columnMappings[m].mapId = maps[i].id
  /\ \A i \in 1..Len(variants) :
       \A col \in LabelColumns(variants[i]) :
         \E m \in 1..Len(columnMappings) :
           /\ columnMappings[m].columnKey = col
           /\ columnMappings[m].variantId = variants[i].id

\* C21: once a rename has been applied, in every state of the page each id
\* of a column mapping is the id of a group that is present, both among the
\* groups of the analysis and among the groups the page shows, and groups
\* and column mappings carry the same ids for the same columns: no state
\* has the new id on one side and the old id on the other.
RenameKeepsReferences ==
  RenameApplied =>
    /\ namesPage # Null =>
         /\ NameReferencesAgree(namesPage.variationAnalysis.groups,
                                namesPage.variationAnalysis.columnMappings)
         /\ NameReferencesAgree(namesPage.groups,
                                namesPage.variationAnalysis.columnMappings)
    /\ labelsPage # Null =>
         /\ LabelReferencesAgree(labelsPage.variationAnalysis.maps,
                                 labelsPage.variationAnalysis.variants,
                                 labelsPage.variationAnalysis.columnMappings)
         /\ LabelReferencesAgree(labelsPage.maps, labelsPage.variants,
                                 labelsPage.variationAnalysis.columnMappings)

\* a rename has given the first MAP label and the VARIANT label new ids
RenameKeepsReferencesWitness ==
  /\ RenameApplied
  /\ labelsPage # Null
  /\ labelsPage.maps[1].id # renameHistory.applied[1].before.maps[1].id
  /\ labelsPage.variants[1].id = Str(<<"7">>)
  /\ labelsPage.variationAnalysis.columnMappings[1].mapId
       = labelsPage.maps[1].id

\* the analysis the page holds
RenamedAnalysis ==
  IF namesPage # Null THEN namesPage.variationAnalysis
  ELSE labelsPage.variationAnalysis

\* The k-th update renames one group from a to b and nothing else.  On the
\* names page the g-th group is named a and b is typed for it, the field of
\* every other group holding the name the group has or nothing; on the
\* labels page b is typed for the id a, which the g-th MAP label carries,
\* and nothing else is typed.
RenamesOnly(k, g, a, b) ==
  LET before == renameHistory.applied[k].before
      request == renameHistory.applied[k].request
  IN  IF namesPage # Null
      THEN /\ g \in 1..Len(before.groups)
           /\ before.groups[g].name = a
           /\ request[before.groups[g].id] = b
           /\ \A h \in 1..Len(before.groups) :
                h # g => request[before.groups[h].id]
                           \in {<<>>, before.groups[h].name}
      ELSE /\ g \in 1..Len(before.maps)
           /\ before.maps[g].id = Str(a)
           /\ DOMAIN request.maps = {a}
           /\ request.maps[a] = b
           /\ DOMAIN request.variants = {}

\* a group was renamed from A to Base, and from Base back to A
RenamedThereAndBack(g) ==
  /\ renameHistory # Null
  /\ Len(renameHistory.applied) = 2
  /\ RenamesOnly(1, g, NameA, NameBase)
  /\ RenamesOnly(2, g, NameBase, NameA)

\* no MAP label carries the id Base when the first rename is applied
BaseIsNew ==
  labelsPage # Null =>
    \A i \in 1..Len(renameHistory.applied[1].before.maps) :
      renameHistory.applied[1].before.maps[i].id # Str(NameBase)

\* C22 as stated: after a group was renamed from A to Base and then from
\* Base back to A, the analysis equals the one before the first rename.
RenameBackRestores ==
  \A g \in 1..2 :
    RenamedThereAndBack(g) =>
      RenamedAnalysis = renameHistory.applied[1].before

\* C22: after a group was renamed from A to Base and then from Base back to
\* A, the analysis equals the one before the first rename, same groups in
\* the same order with the same ids, names and colours and the same column
\* mappings, provided that where the rename rewrites ids no other label
\* carried the id Base before the first rename.
RenameBackRestoresNew ==
  \A g \in 1..2 :
    RenamedThereAndBack(g) /\ BaseIsNew =>
      RenamedAnalysis = renameHistory.applied[1].before

\* a MAP label went from A to Base and back, no other label carrying Base
RenameBackRestoresWitness ==
  /\ RenamedThereAndBack(1)
  /\ labelsPage # Null
  /\ BaseIsNew
  /\ RenamedAnalysis = renameHistory.applied[1].before
  /\ renameHistory.applied[2].before.maps[1].id = Str(NameBase)

\* the groups of an analysis, whichever page holds it
GroupsOf(analysis) ==
  IF namesPage # Null THEN analysis.groups ELSE analysis.maps

ColumnsOf(group) ==
  IF namesPage # Null THEN GroupColumns(group) ELSE LabelColumns(group)

\* what carries the name of a group: the name on the names page, the id on
\* the labels page
DisplayOf(group) ==
  IF namesPage # Null THEN Str(group.name) ELSE group.id

\* the analysis that the k-th update returned
AfterRename(k) ==
  IF k < Len(renameHistory.applied)
  THEN renameHistory.applied[k + 1].before
  ELSE RenamedAnalysis

\* C26: an update never merges or drops groups: the analysis it returns
\* has as many groups as the one it was given, and the i-th group lists
\* the columns it listed before, also when the update gives a group the
\* name or id that another group carries.
RenameKeepsGroups ==
  renameHistory # Null =>
    \A k \in 1..Len(renameHistory.applied) :
      LET before == GroupsOf(renameHistory.applied[k].before)
          after == GroupsOf(AfterRename(k))
      IN  /\ Len(after) = Len(before)
          /\ \A i \in 1..Len(before) :
               ColumnsOf(after[i]) = ColumnsOf(before[i])

\* an update has given the first group the name or id the second one
\* carries and keeps; both are there, each with its columns
RenameKeepsGroupsWitness ==
  /\ RenameApplied
  /\ LET before == GroupsOf(renameHistory.applied[1].before)
         after == GroupsOf(AfterRename(1))
     IN  /\ DisplayOf(before[1]) # DisplayOf(before[2])
         /\ DisplayOf(after[2]) = DisplayOf(before[2])
         /\ DisplayOf(after[1]) = DisplayOf(after[2])
         /\ Len(after) = 2
         /\ ColumnsOf(after[1]) # ColumnsOf(after[2])

(***************************************************************************)
(* Properties of the export                                                *)
(***************************************************************************)
Exported == exportPage # Null /\ exportPage.file # Null

\* the variation sheet of the written file
VariationRows == exportPage.file.sheets[1].data

BlankCell(cell) == cell = Undefined \/ cell = Str(<<>>)

\* the rows behind the imported ones, the rows without a cell left out
SummaryRows ==
  LET n == Len(exportPage.imported)
  IN  SelectSeq(SubSeq(VariationRows, n + 1, Len(VariationRows)),
                LAMBDA row : row # <<>>)

\* the id that the column at the index has in the column mappings: the
\* MAP id for the first summary row, the VARIANT id for the second
IdAtIndex(index, kind) ==
  LET columnMappings == exportPage.variationAnalysis.columnMappings
      found == {m \in 1..Len(columnMappings) :
                  columnLetterToIndex(columnMappings[m].columnKey) = index}
  IN  IF found = {} THEN Str(<<>>)
      ELSE LET m == CHOOSE m \in found : TRUE
           IN  IF kind = 1 THEN columnMappings[m].mapId
               ELSE columnMappings[m].variantId

\* C23: the exported grid is the imported rows followed by one summary row
\* for the MAP labels and one for the VARIANT labels, and a summary row
\* holds at the index of every data column the id of the group of the
\* column and a blank cell at every other index.
ExportLayout ==
  Exported =>
    /\ SubSeq(VariationRows, 1, Len(exportPage.imported))
         = exportPage.imported
    /\ Len(SummaryRows) = 2
    /\ \A kind \in 1..2 :
         \A i \in 1..Len(SummaryRows[kind]) :
           LET id == IdAtIndex(i - 1, kind)
           IN  IF id = Str(<<>>) THEN BlankCell(SummaryRows[kind][i])
               ELSE SummaryRows[kind][i] = id

\* what the code does: the imported rows, a row without cells, and the two
\* summary rows, which hold the ids at the indexes of the data columns and
\* blank cells elsewhere, except for the first cell, which holds the count
\* of the labels and the kind
ExportLayoutLabelled ==
  Exported =>
    /\ SubSeq(VariationRows, 1, Len(exportPage.imported))
         = exportPage.imported
    /\ Len(VariationRows) = Len(exportPage.imported) + 3
    /\ VariationRows[Len(exportPage.imported) + 1] = <<>>
    /\ Len(SummaryRows) = 2
    /\ SummaryRows[1][1]
         = CountLabel(exportPage.variationAnalysis.maps, "MAP")
    /\ SummaryRows[2][1]
         = CountLabel(exportPage.variationAnalysis.variants, "VARIANT")
    /\ \A kind \in 1..2 :
         \A i \in 2..Len(SummaryRows[kind]) :
           LET id == IdAtIndex(i - 1, kind)
           IN  IF id = Str(<<>>) THEN BlankCell(SummaryRows[kind][i])
               ELSE SummaryRows[kind][i] = id

\* C24: after an export the imported rawData is the array it was, with the
\* rows and the cells it had, and the array handed to the writer is a new
\* one, neither rawData nor one of its rows.
ExportLeavesInput ==
  Exported =>
    /\ Contents(exportPage.heap, 1) = exportPage.imported
    /\ Imported(exportPage) = HeapOf(exportPage.imported)
    /\ exportPage.data > 1 + Len(exportPage.imported)

\* a grid of two rows was exported with three rows added to the copy
ExportLeavesInputWitness ==
  /\ Exported
  /\ Len(exportPage.imported) = 2
  /\ Len(exportPage.heap[exportPage.data]) = 5
  /\ Len(exportPage.heap[1]) = 2

(***************************************************************************)
(* Properties of the configuration                                         *)
(***************************************************************************)
\* the cell is missing or blank
MissingCell(cell) ==
  cell = Undefined \/ (cell.k = "string" /\ Trim(cell.s) = <<>>)

\* the cell does not hold a column letter
InvalidColumnCell(cell) ==
  MissingCell(cell) \/ cell.k # "string" \/ ~UpperCaseLetters(Trim(cell.s))

\* the cell does not hold a positive row number
InvalidStartRowCell(cell) ==
  \/ MissingCell(cell)
  \/ cell.k = "number" /\ cell.n < 1
  \/ cell.k = "string" /\ (parseInt(cell.s) = NaN \/ parseInt(cell.s).n < 1)

\* the sheet has a non-positive start row or a missing or invalid column
InvalidSheet(data) ==
  \/ InvalidColumnCell(CellAt(data, 1, 3))
  \/ InvalidStartRowCell(CellAt(data, 1, 4))
  \/ InvalidColumnCell(CellAt(data, 1, 5))

\* C25: a configuration sheet with a non-positive start row or a missing or
\* invalid column letter is reported: once it is parsed and validated the
\* validation is not valid; it is not turned into a valid configuration by
\* default values.
InvalidConfigurationReported ==
  (/\ configCall # Null
   /\ configCall.validation # Null
   /\ InvalidSheet(configCall.data))
    => ~configCall.validation.valid

(***************************************************************************)
(* Properties of the two row scans of analyzeVariations                    *)
(***************************************************************************)
FeatureRowCount == Len(analysisResult.featureRows)

FirstMatched == firstMatchResult # Null

ActiveGroupInList ==
  configurePage # Null =>
    /\ (configurePage.activeGroupId = NullId)
         <=> (configurePage.variationGroups = <<>>)
    /\ configurePage.activeGroupId # NullId
         => ActiveIndex(configurePage) # 0

\* the first group was removed: the group made second is the only one, and
\* it is the active one
ActiveGroupInListWitness ==
  /\ configurePage # Null
  /\ Len(configurePage.variationGroups) = 1
  /\ configurePage.variationGroups[1].name = DefaultGroupName(2)
  /\ configurePage.activeGroupId = configurePage.variationGroups[1].id

NoDuplicates(items) ==
  \A i, j \in 1..Len(items) : items[i] = items[j] => i = j

\* C30: in every state of the Configure page, every feature name that is a
\* key of the selectedFeatures of a group maps to a non-empty list of item
\* names without duplicates; so when handleContinue has let the user on,
\* every group selects at least one (feature, item) pair.
SelectedFeaturesHaveItems ==
  configurePage # Null =>
    \A g \in 1..Len(configurePage.variationGroups) :
      LET selected == configurePage.variationGroups[g].selectedFeatures
      IN  /\ \A k \in 1..Len(selected) :
               selected[k].items # <<>> /\ NoDuplicates(selected[k].items)
          /\ configurePage.location = "/analyze"
               => \E k \in 1..Len(selected) : selected[k].items # <<>>

====
